---- MODULE Spec2Model ----
(***************************************************************************)
(* Model of the Moltbook API-key scanner (scanner/main.go, kept here as    *)
(* src/unnamed/part_000): the Scanner process (NewScanner, Run, scan,      *)
(* scanPostComments, scanRecentComments), its in-memory seenMessages map,  *)
(* the ClickHouse tables it writes and the remote feed it polls.           *)
(***************************************************************************)
EXTENDS Integers, Sequences, FiniteSets, TLC

(***************************************************************************)
(* Bounds of the model.                                                    *)
(***************************************************************************)
\* scan cycles over one behaviour (initial scans and ticks, of all process runs)
MaxCycles == 2
\* failures (start-up, load, fetch, insert) injected over one behaviour
MaxFaults == 1

(***************************************************************************)
(* The remote content: two posts, a comment on each, and a reply.          *)
(* A text is a sequence of tokens; "kA" and "kB" are credential-shaped     *)
(* tokens, "w" is prose.                                                   *)
(***************************************************************************)
PostIds == {"p1", "p2"}
CommentIds == {"c1", "r1", "c2"}
AllIds == PostIds \cup CommentIds
Keys == {"kA", "kB"}

\* MoltbookPost: ID, Title, Content (CommentCount is reported per fetch)
PostOf(id) ==
    IF id = "p1" THEN [ID |-> "p1", Title |-> <<"w">>, Content |-> <<"kA", "w">>]
    ELSE [ID |-> "p2", Title |-> <<"w">>, Content |-> <<"w">>]

\* MoltbookComment: ID, PostID, ParentID, Content
CommentOf(id) ==
    CASE id = "c1" -> [ID |-> "c1", PostID |-> "p1", ParentID |-> "", Content |-> <<"kA", "w", "kA">>]
      [] id = "r1" -> [ID |-> "r1", PostID |-> "p1", ParentID |-> "c1", Content |-> <<"w">>]
      [] OTHER     -> [ID |-> "c2", PostID |-> "p2", ParentID |-> "", Content |-> <<"kB", "kA">>]

\* the order in which the remote API lists posts and sibling comments
FeedOrder == <<"p1", "p2">>
CommentOrder == <<"c1", "r1", "c2">>

\* what a unit needs upstream before it can exist: a comment its post, a reply its parent
Needs(id) ==
    IF id \in PostIds THEN {}
    ELSE {CommentOf(id).PostID} \cup
         (IF CommentOf(id).ParentID = "" THEN {} ELSE {CommentOf(id).ParentID})

VARIABLES
    published,        \* remote: ids of the posts and comments that exist upstream
    messages,         \* ClickHouse table messages: rows per id
    api_key_findings, \* ClickHouse table api_key_findings: rows per <<post_id, api_key>>
    pc,               \* where the process is
    cancelled,        \* ctx.Done() is closed
    seenMessages,     \* Scanner.seenMessages
    cycle,            \* scan cycles started so far
    posts, i,         \* scan: the fetched feed and the position of its loop
    comments, j,      \* scanPostComments / scanRecentComments: batch and loop position
    ctr,              \* scan: newMessages, newPosts, newComments, totalFindings, saveErrors
    scanErr,          \* what the last scan returned
    faults,           \* failures injected so far
    runHist,          \* history of this run: what it loaded and what it tried to insert
    cyc,              \* history of the current scan cycle
    prevCyc,          \* history of the scan cycle before it, if this run had one
    quiet,            \* scan cycles started since the remote content last changed (up to 2)
    call,             \* one call of a pure function on its own: its input and its result
    api_key_patterns, \* ClickHouse table api_key_patterns of the dashboard: its rows
    mutations,        \* ClickHouse: ALTER TABLE mutations accepted and not yet applied
    requests,         \* dashboard: the /api/patterns requests and where each handler is
    scannerPatterns,  \* the running process: its Scanner.apiKeyPatterns field
    lastScan          \* the scanner's latest ScanText: its text, the keys it found, and
                      \* what the patterns table held enabled at that moment

\* the dashboard's patterns table and handlers, and the scanner's pattern field
webVars == <<api_key_patterns, mutations, requests, scannerPatterns, lastScan>>

vars == <<published, messages, api_key_findings, pc, cancelled, seenMessages,
          cycle, posts, i, comments, j, ctr, scanErr, faults, runHist, cyc, prevCyc, quiet,
          call, api_key_patterns, mutations, requests, scannerPatterns, lastScan>>

(***************************************************************************)
(* Pattern matching: compileAPIKeyPatterns, FindAllString, ScanPost,       *)
(* ScanComment.                                                            *)
(***************************************************************************)
\* the compiled patterns, in their listed order
apiKeyPatterns == <<"vendor", "generic1", "generic2">>

\* whether pattern p matches token t ("kB" is matched by two patterns)
Matches(p, t) ==
    \/ p = "vendor" /\ t = "kA"
    \/ p = "generic1" /\ t = "kB"
    \/ p = "generic2" /\ t = "kB"

\* pattern.FindAllString(text, -1): the matches of one pattern, left to right
FindAllString(p, text) == SelectSeq(text, LAMBDA t : Matches(p, t))

\* the matches in the order the two nested loops visit them
RECURSIVE AllMatches(_, _)
AllMatches(n, text) ==
    IF n = 0 THEN <<>>
    ELSE AllMatches(n - 1, text) \o FindAllString(apiKeyPatterns[n], text)

\* only the keys found before the call are filtered out
UniqueKeysGivenOnly(ms, foundKeys) == SelectSeq(ms, LAMBDA m : m \notin foundKeys)

\* the filter left out: every match becomes a key
UniqueKeysNoFilter(ms, foundKeys) == ms

\* the foundKeys filter: a key that was already found is skipped (a token stands for the
\* trimmed match: no listed pattern begins or ends with white space)
RECURSIVE UniqueKeys(_, _)
UniqueKeys(ms, foundKeys) ==
    IF ms = <<>> THEN <<>>
    ELSE IF Head(ms) \in foundKeys THEN UniqueKeys(Tail(ms), foundKeys)
    ELSE <<Head(ms)>> \o UniqueKeys(Tail(ms), foundKeys \cup {Head(ms)})

\* one foundKeys map kept for the whole run: the keys of every finding emitted so far
FoundKeysOfRun == {f.APIKey : f \in {g \in DOMAIN runHist.findTried : runHist.findTried[g] > 0}}

\* foundKeys := make(map[string]bool): a fresh, empty map in every call
NewFoundKeys == {}

\* ScanPost: one finding per distinct key of title + "\n" + content, keyed by post.ID
ScanPost(post) ==
    LET textToScan == post.Title \o <<"\n">> \o post.Content
        keys == UniqueKeys(AllMatches(Len(apiKeyPatterns), textToScan), NewFoundKeys)
    IN  [n \in 1..Len(keys) |-> [PostID |-> post.ID, APIKey |-> keys[n]]]

\* ScanComment: one finding per distinct key of the content, keyed by comment.PostID
ScanComment(comment) ==
    LET keys == UniqueKeys(AllMatches(Len(apiKeyPatterns), comment.Content), NewFoundKeys)
    IN  [n \in 1..Len(keys) |-> [PostID |-> comment.PostID, APIKey |-> keys[n]]]

(***************************************************************************)
(* The remote API: FetchFeed, FetchComments, FetchRecentComments.          *)
(***************************************************************************)
Published(order) == SelectSeq(order, LAMBDA id : id \in published)

\* comment_count of a post as the feed reports it
CommentCountOf(pid) == Cardinality({c \in CommentIds \cap published : CommentOf(c).PostID = pid})

\* FetchFeed's result when the request succeeds
FeedResponse ==
    LET ids == Published(FeedOrder)
    IN  [n \in 1..Len(ids) |->
            [ID |-> ids[n], Title |-> PostOf(ids[n]).Title, Content |-> PostOf(ids[n]).Content,
             CommentCount |-> CommentCountOf(ids[n])]]

\* a comment of the response with its nested replies
RECURSIVE CommentTree(_)
CommentTree(id) ==
    LET kids == SelectSeq(Published(CommentOrder), LAMBDA c : CommentOf(c).ParentID = id)
    IN  [ID |-> id, PostID |-> CommentOf(id).PostID, ParentID |-> CommentOf(id).ParentID,
         Content |-> CommentOf(id).Content,
         Replies |-> [n \in 1..Len(kids) |-> CommentTree(kids[n])]]

\* the top-level comments of a CommentsResponse
RootComments(postIDs) ==
    LET roots == SelectSeq(Published(CommentOrder),
                           LAMBDA c : CommentOf(c).ParentID = "" /\ CommentOf(c).PostID \in postIDs)
    IN  [n \in 1..Len(roots) |-> CommentTree(roots[n])]

\* the top-level comments as received, replies left inside them
flattenTopLevel(cs) == cs

\* FetchComments' flatten closure: every comment, then its replies
RECURSIVE flatten(_)
flatten(cs) ==
    IF cs = <<>> THEN <<>>
    ELSE <<Head(cs)>> \o flatten(Head(cs).Replies) \o flatten(Tail(cs))

\* FetchComments' result when the request succeeds
FetchCommentsResponse(postID) == flatten(RootComments({postID}))

\* FetchRecentComments' result when the request succeeds: commentsResp.Comments as received
FetchRecentCommentsResponse == RootComments(PostIds)

(***************************************************************************)
(* State after the process image is started for the first time, against an *)
(* empty database and an empty remote feed.                                *)
(***************************************************************************)
FindingRecs == [unit : AllIds, PostID : PostIds, APIKey : Keys]
FindingRows == [PostID : PostIds, APIKey : Keys]

ZeroCtr == [newMessages |-> 0, newPosts |-> 0, newComments |-> 0,
            totalFindings |-> 0, saveErrors |-> 0]

NoCyc == [seenAtStart |-> {}, fetched |-> {}, feed |-> "none",
          recent |-> "none", commentErr |-> {}, commentOk |-> {}]

NoPrev == [feed |-> "none", recent |-> "none", commentErr |-> {}]

NoRunHist == [earlier |-> {}, seeded |-> {},
              msgTried |-> [id \in AllIds |-> 0],
              findTried |-> [f \in FindingRecs |-> 0]]

\* no pure function is called on its own
NoCall == [op |-> "none", in |-> <<>>, out |-> <<>>, done |-> FALSE]

\* /api/patterns requests the dashboard serves over one behaviour
MaxRequests == 3

\* a request that has not arrived: no method, no row count read, no response
NoRequest == [method |-> "", at |-> "idle", count |-> 0, out |-> 0]

\* nothing scanned yet
NoScan == [text |-> <<>>, keys |-> <<>>, enabled |-> {}]

\* the dashboard before its first request: no patterns table row, no mutation
\* pending, no handler running; the scanner process not constructed
InitDashboard ==
    /\ api_key_patterns = {}
    /\ mutations = <<>>
    /\ requests = [r \in 1..MaxRequests |-> NoRequest]
    /\ scannerPatterns = <<>>
    /\ lastScan = NoScan

\* the process before NewScanner, the tables empty, nothing published upstream
InitScanner ==
    /\ published = {}
    /\ messages = [id \in AllIds |-> 0]
    /\ api_key_findings = [f \in FindingRows |-> 0]
    /\ pc = "new"
    /\ cancelled = FALSE
    /\ seenMessages = {}
    /\ cycle = 0
    /\ posts = <<>> /\ i = 0
    /\ comments = <<>> /\ j = 0
    /\ ctr = ZeroCtr
    /\ scanErr = "none"
    /\ faults = 0
    /\ runHist = NoRunHist
    /\ cyc = NoCyc
    /\ prevCyc = NoPrev
    /\ quiet = 0

Init == InitScanner /\ InitDashboard /\ call = NoCall

(***************************************************************************)
(* The remote side: a post, a comment or a reply appears upstream.         *)
(***************************************************************************)
Publish ==
    /\ \E u \in AllIds \ published :
          /\ Needs(u) \subseteq published
          /\ published' = published \cup {u}
    /\ quiet' = 0
    /\ UNCHANGED <<webVars, call, messages, api_key_findings, pc, cancelled, seenMessages, cycle,
                   posts, i, comments, j, ctr, scanErr, faults, runHist, cyc, prevCyc>>

(***************************************************************************)
(* Start-up: main, NewScanner, Run up to the initial scan.                 *)
(***************************************************************************)
\* a failure may be injected while the budget lasts
MayFail(n) == faults + n <= MaxFaults

\* a request made with the context of Run: it fails at once when the context is already
\* cancelled, and may fail otherwise (transport, status, decoding, success = false)
RequestMay(ok) == IF cancelled THEN ~ok ELSE ok \/ MayFail(1)

\* the failures of requests under a live context are the ones the fault budget counts
RequestFaults(ok) == IF ok \/ cancelled THEN faults ELSE faults + 1

\* Run going on to LoadSeenMessages although InitDatabase failed
AfterInitDatabaseErrorGoOn == "load"

\* NewScanner returned an error: main logs it with log.Fatalf and the process exits
AfterNewScannerError == "exited"

\* InitDatabase returned an error: Run returns it, main logs it with log.Fatalf
AfterInitDatabaseError == "exited"

\* NewScanner: a missing key or an unreachable store is fatal (log.Fatalf in main)
NewScanner ==
    /\ pc = "new"
    /\ \E ok \in BOOLEAN :
          /\ ok \/ MayFail(1)
          /\ pc' = IF ok THEN "init" ELSE AfterNewScannerError
          /\ faults' = IF ok THEN faults ELSE faults + 1
    /\ UNCHANGED <<webVars, call, published, messages, api_key_findings, cancelled, seenMessages, cycle,
                   posts, i, comments, j, ctr, scanErr, runHist, cyc, prevCyc, quiet>>

\* Run: InitDatabase; its error makes Run return it, and main exits
InitDatabase ==
    /\ pc = "init"
    /\ \E ok \in BOOLEAN :
          /\ ok \/ MayFail(1)
          /\ pc' = IF ok THEN "load" ELSE AfterInitDatabaseError
          /\ faults' = IF ok THEN faults ELSE faults + 1
    /\ UNCHANGED <<webVars, call, published, messages, api_key_findings, cancelled, seenMessages, cycle,
                   posts, i, comments, j, ctr, scanErr, runHist, cyc, prevCyc, quiet>>

\* the ids SELECT id FROM messages returns
StoredIds == {id \in AllIds : messages[id] > 0}

\* what Run does when LoadSeenMessages returns an error: it logs a warning and goes on
AfterLoadError == "initial"

\* the ticker loop entered right after the seen set is loaded, no scan before the first tick
AfterLoadWait == "wait"

\* what Run does after LoadSeenMessages: the initial scan, before the ticker is created
AfterLoad == "initial"

\* LoadSeenMessages, called by Run: every stored id is marked seen; when the query
\* or a row scan fails, only the rows read before the error are
LoadSeenMessages ==
    /\ pc = "load"
    /\ \E ok \in BOOLEAN :
          /\ ok \/ MayFail(1)
          /\ \E loaded \in SUBSET StoredIds :
                /\ ok => loaded = StoredIds
                /\ ~ok => loaded # StoredIds \/ StoredIds = {}
                /\ seenMessages' = seenMessages \cup loaded
          /\ pc' = IF ok THEN AfterLoad ELSE AfterLoadError
          /\ faults' = IF ok THEN faults ELSE faults + 1
    /\ runHist' = [runHist EXCEPT !.seeded = seenMessages']
    /\ UNCHANGED <<webVars, call, published, messages, api_key_findings, cancelled, cycle,
                   posts, i, comments, j, ctr, scanErr, cyc, prevCyc, quiet>>

(***************************************************************************)
(* One unseen unit: the body the three loops of scan, scanPostComments and *)
(* scanRecentComments share (count, SaveMessage, scan, SaveFinding, mark). *)
(***************************************************************************)
\* the seen check left out
AlreadySeenNever(id) == FALSE

\* the seen check left out of the post loop
AlreadySeenCommentsOnly(id) == id \in seenMessages /\ id \in CommentIds

\* s.seenMessages[id]
AlreadySeen(id) == id \in seenMessages

\* the seen set replaced by a set that holds the unit alone
MarkSeenAlone(id, saved) == {id}

\* the unit marked only when every insert succeeded
MarkSeenIfSaved(id, saved) == IF saved THEN seenMessages \cup {id} ELSE seenMessages

\* the mark left out of the comment loops
MarkSeenPostsOnly(id, saved) == IF id \in PostIds THEN seenMessages \cup {id} ELSE seenMessages

\* s.seenMessages[id] = true, whatever the inserts returned
MarkSeen(id, saved) == seenMessages \cup {id}

\* the findings counter raised for every finding, its insert failed or not
CountUnitEveryFinding(c, kind, msgOk, nOk, nErr) ==
    [c EXCEPT !.newMessages = @ + 1,
              !.newPosts = IF kind = "post" THEN @ + 1 ELSE @,
              !.newComments = IF kind = "comment" THEN @ + 1 ELSE @,
              !.totalFindings = @ + nOk + nErr,
              !.saveErrors = @ + nErr + (IF msgOk THEN 0 ELSE 1)]

\* the counters after one unit: msgOk is SaveMessage's outcome, nOk and nErr count SaveFinding's
CountUnit(c, kind, msgOk, nOk, nErr) ==
    [c EXCEPT !.newMessages = @ + 1,
              !.newPosts = IF kind = "post" THEN @ + 1 ELSE @,
              !.newComments = IF kind = "comment" THEN @ + 1 ELSE @,
              !.totalFindings = @ + nOk,
              !.saveErrors = @ + nErr + (IF msgOk THEN 0 ELSE 1)]

\* the unit abandoned when SaveMessage failed
ToSaveIfMessageSaved(findings, msgOk) == IF msgOk THEN findings ELSE <<>>

\* the findings whose insert is attempted: all of them, whatever SaveMessage returned
ToSave(findings, msgOk) == findings

\* the findings of a sequence whose insert had the given outcome
Picked(findings, findOk, outcome) == {n \in DOMAIN findings : findOk[n] = outcome}

\* the unit is counted, its audit row and each of its findings are inserted (each insert
\* may fail on its own), and it is marked seen
ScanUnit(id, kind, found, msgOk, findOk) ==
    LET findings == ToSave(found, msgOk)
        nOk == Cardinality(Picked(findings, findOk, TRUE))
        nErr == Cardinality(Picked(findings, findOk, FALSE))
        nFaults == nErr + (IF msgOk THEN 0 ELSE 1)
    IN  /\ MayFail(nFaults)
        /\ faults' = faults + nFaults
        /\ ctr' = CountUnit(ctr, kind, msgOk, nOk, nErr)
        /\ messages' = IF msgOk THEN [messages EXCEPT ![id] = @ + 1] ELSE messages
        /\ api_key_findings' =
              [f \in FindingRows |-> api_key_findings[f] +
                  Cardinality({n \in Picked(findings, findOk, TRUE) : findings[n] = f})]
        /\ seenMessages' = MarkSeen(id, msgOk /\ nErr = 0)
        /\ runHist' = [runHist EXCEPT
              !.msgTried[id] = @ + 1,
              !.findTried = [f \in FindingRecs |-> @[f] +
                  Cardinality({n \in DOMAIN findings :
                      f = [unit |-> id, PostID |-> findings[n].PostID,
                           APIKey |-> findings[n].APIKey]})]]

\* the outcomes the inserts of one unit can have
Outcomes(findings) == [DOMAIN findings -> BOOLEAN]

(***************************************************************************)
(* scan: the feed and its loop over the posts.                             *)
(***************************************************************************)
\* scan returning at once when FetchFeed failed
AfterFeedErrorReturn == "end"

\* where scan goes on when FetchFeed returned an error: it logs and falls to the recent comments
AfterFeedError == "fetchRecent"

\* the post loop left when FetchComments failed
AfterCommentsErrorBreak(n) == "fetchRecent"

\* where the post loop goes on after the post at position n
AfterPost(n) == IF n + 1 > Len(posts) THEN "fetchRecent" ELSE "posts"

\* where scan goes on when FetchComments returned an error for the post at position n:
\* scanPostComments returns and the post loop takes the next post
AfterCommentsError(n) == AfterPost(n)

IdsOf(batch) == {batch[n].ID : n \in DOMAIN batch}

\* scan starts: the counters are zeroed and FetchFeed(ctx, "new", 100) is called
BeginScan ==
    /\ cycle' = cycle + 1
    /\ ctr' = ZeroCtr
    /\ scanErr' = "none"
    /\ prevCyc' = [feed |-> cyc.feed, recent |-> cyc.recent, commentErr |-> cyc.commentErr]
    /\ quiet' = IF quiet < 2 THEN quiet + 1 ELSE 2
    /\ comments' = <<>> /\ j' = 0
    /\ \E ok \in BOOLEAN :
          /\ RequestMay(ok)
          /\ faults' = RequestFaults(ok)
          /\ posts' = IF ok THEN FeedResponse ELSE <<>>
          /\ i' = IF ok THEN 1 ELSE 0
          /\ pc' = IF ~ok THEN AfterFeedError
                   ELSE IF FeedResponse = <<>> THEN "fetchRecent" ELSE "posts"
          /\ cyc' = [NoCyc EXCEPT !.seenAtStart = seenMessages,
                                  !.feed = IF ok THEN "ok" ELSE "err",
                                  !.fetched = IF ok THEN IdsOf(FeedResponse) ELSE {}]
    /\ UNCHANGED <<webVars, call, published, messages, api_key_findings, cancelled, seenMessages, runHist>>

\* Run: the initial scan, right after the load
InitialScan ==
    /\ pc = "initial"
    /\ BeginScan

\* the context is also looked at between the units of a cycle
AtSelectOrLoop(p) == p \in {"wait", "posts", "comments", "recent"}

\* a tick is also taken while scan waits for a fetch
AtSelectOrFetch(p) == p \in {"wait", "fetchComments", "fetchRecent"}

\* the select that takes no case once the context is cancelled
AtSelectNotCancelled(p) == p = "wait" /\ ~cancelled

\* the only place where Run looks at the context and at the ticker: the select of its loop
AtSelect(p) == p = "wait"

\* Run: the ticker fired and select took that case
TickScan ==
    /\ AtSelect(pc)
    /\ cycle < MaxCycles
    /\ BeginScan

\* scan: one iteration of the loop over posts
ProcessPost ==
    /\ pc = "posts"
    /\ LET post == posts[i] IN
       IF AlreadySeen(post.ID)
       THEN /\ pc' = AfterPost(i)
            /\ i' = i + 1
            /\ UNCHANGED <<messages, api_key_findings, seenMessages, ctr, faults, runHist>>
       ELSE /\ \E msgOk \in BOOLEAN, findOk \in Outcomes(ScanPost(post)) :
                  ScanUnit(post.ID, "post", ScanPost(post), msgOk, findOk)
            /\ IF post.CommentCount > 0
               THEN pc' = "fetchComments" /\ i' = i
               ELSE pc' = AfterPost(i) /\ i' = i + 1
    /\ UNCHANGED <<webVars, call, published, cancelled, cycle, posts, comments, j, scanErr, cyc, prevCyc, quiet>>

(***************************************************************************)
(* scanPostComments: the comments of the post the loop is at.              *)
(***************************************************************************)
\* FetchComments(ctx, post.ID); on an error scanPostComments returns at once and silently
FetchComments ==
    /\ pc = "fetchComments"
    /\ \E ok \in BOOLEAN :
          /\ RequestMay(ok)
          /\ faults' = RequestFaults(ok)
          /\ LET got == FetchCommentsResponse(posts[i].ID) IN
             IF ok /\ got # <<>>
             THEN /\ comments' = got /\ j' = 1
                  /\ pc' = "comments" /\ i' = i
             ELSE /\ comments' = <<>> /\ j' = 0
                  /\ pc' = (IF ok THEN AfterPost(i) ELSE AfterCommentsError(i))
                  /\ i' = i + 1
          /\ cyc' = IF ok
                    THEN [cyc EXCEPT !.commentOk = @ \cup {posts[i].ID},
                                     !.fetched = @ \cup IdsOf(FetchCommentsResponse(posts[i].ID))]
                    ELSE [cyc EXCEPT !.commentErr = @ \cup {posts[i].ID}]
    /\ UNCHANGED <<webVars, call, published, messages, api_key_findings, cancelled, seenMessages, cycle,
                   posts, ctr, scanErr, runHist, prevCyc, quiet>>

\* scanPostComments: one iteration of the loop over the flattened comments
ProcessComment ==
    /\ pc = "comments"
    /\ LET comment == comments[j] IN
       IF AlreadySeen(comment.ID)
       THEN UNCHANGED <<messages, api_key_findings, seenMessages, ctr, faults, runHist>>
       ELSE \E msgOk \in BOOLEAN, findOk \in Outcomes(ScanComment(comment)) :
               ScanUnit(comment.ID, "comment", ScanComment(comment), msgOk, findOk)
    /\ IF j + 1 > Len(comments)
       THEN /\ comments' = <<>> /\ j' = 0
            /\ pc' = AfterPost(i) /\ i' = i + 1
       ELSE /\ comments' = comments /\ j' = j + 1
            /\ pc' = "comments" /\ i' = i
    /\ UNCHANGED <<webVars, call, published, cancelled, cycle, posts, scanErr, cyc, prevCyc, quiet>>

(***************************************************************************)
(* scanRecentComments, and the end of scan.                                *)
(***************************************************************************)
\* FetchRecentComments(ctx); on an error scanRecentComments returns silently
FetchRecentComments ==
    /\ pc = "fetchRecent"
    /\ \E ok \in BOOLEAN :
          /\ RequestMay(ok)
          /\ faults' = RequestFaults(ok)
          /\ LET got == FetchRecentCommentsResponse IN
             IF ok /\ got # <<>>
             THEN comments' = got /\ j' = 1 /\ pc' = "recent"
             ELSE comments' = <<>> /\ j' = 0 /\ pc' = "end"
          /\ cyc' = IF ok
                    THEN [cyc EXCEPT !.recent = "ok",
                                     !.fetched = @ \cup IdsOf(FetchRecentCommentsResponse)]
                    ELSE [cyc EXCEPT !.recent = "err"]
    /\ UNCHANGED <<webVars, call, published, messages, api_key_findings, cancelled, seenMessages, cycle,
                   posts, i, ctr, scanErr, runHist, prevCyc, quiet>>

\* scanRecentComments: one iteration of the loop over the comments as received
ProcessRecent ==
    /\ pc = "recent"
    /\ LET comment == comments[j] IN
       IF AlreadySeen(comment.ID)
       THEN UNCHANGED <<messages, api_key_findings, seenMessages, ctr, faults, runHist>>
       ELSE \E msgOk \in BOOLEAN, findOk \in Outcomes(ScanComment(comment)) :
               ScanUnit(comment.ID, "comment", ScanComment(comment), msgOk, findOk)
    /\ IF j + 1 > Len(comments)
       THEN comments' = <<>> /\ j' = 0 /\ pc' = "end"
       ELSE comments' = comments /\ j' = j + 1 /\ pc' = "recent"
    /\ UNCHANGED <<webVars, call, published, cancelled, cycle, posts, i, scanErr, cyc, prevCyc, quiet>>

\* what scan returns: nil, whatever failed on the way
ScanResult(c) == "nil"

\* Run returns as soon as a cycle had a source that failed
AfterScanFailFast(err, c) ==
    IF err # "nil" \/ c.feed = "err" \/ c.recent = "err" THEN "exited" ELSE "wait"

\* what Run does when scan returns: an error is only logged, then Run waits for the
\* next tick (the ticker is created after the initial scan)
AfterScan(err, c) == "wait"

\* scan logs its summary and returns; Run logs an error if there is one and waits
ScanReturn ==
    /\ pc = "end"
    /\ scanErr' = ScanResult(cyc)
    /\ pc' = AfterScan(scanErr', cyc)
    /\ posts' = <<>> /\ i' = 0
    /\ UNCHANGED <<webVars, call, published, messages, api_key_findings, cancelled, seenMessages, cycle,
                   comments, j, ctr, faults, runHist, cyc, prevCyc, quiet>>

(***************************************************************************)
(* Cancellation, the end of Run, and a new start of the process.           *)
(***************************************************************************)
\* the positions of Run inside a call of scan
InCycle(p) == p \in {"posts", "fetchComments", "comments", "fetchRecent", "recent", "end"}

\* SIGINT or SIGTERM once main has set up the context and the signal goroutine, which
\* cancels the context
Cancel ==
    /\ ~cancelled
    /\ pc \notin {"new", "exited", "stopped"}
    /\ cancelled' = TRUE
    /\ UNCHANGED <<webVars, call, published, messages, api_key_findings, pc, seenMessages, cycle,
                   posts, i, comments, j, ctr, scanErr, faults, runHist, cyc, prevCyc, quiet>>

\* Run: select took <-ctx.Done(); Run returns nil
Stop ==
    /\ AtSelect(pc)
    /\ cancelled
    /\ pc' = "stopped"
    /\ UNCHANGED <<webVars, call, published, messages, api_key_findings, cancelled, seenMessages, cycle,
                   posts, i, comments, j, ctr, scanErr, faults, runHist, cyc, prevCyc, quiet>>

\* the process is started again: a new Scanner with an empty seenMessages map
Restart ==
    /\ pc \in {"exited", "stopped"}
    /\ cycle < MaxCycles
    /\ pc' = "new"
    /\ cancelled' = FALSE
    /\ seenMessages' = {}
    /\ posts' = <<>> /\ i' = 0
    /\ comments' = <<>> /\ j' = 0
    /\ ctr' = ZeroCtr
    /\ scanErr' = "none"
    /\ runHist' = [NoRunHist EXCEPT !.earlier = runHist.earlier \cup seenMessages]
    /\ cyc' = NoCyc
    /\ prevCyc' = NoPrev
    /\ UNCHANGED <<webVars, call, published, messages, api_key_findings, cycle, faults, quiet>>

Next ==
    \/ Publish
    \/ NewScanner
    \/ InitDatabase
    \/ LoadSeenMessages
    \/ InitialScan
    \/ TickScan
    \/ ProcessPost
    \/ FetchComments
    \/ ProcessComment
    \/ FetchRecentComments
    \/ ProcessRecent
    \/ ScanReturn
    \/ Cancel
    \/ Stop
    \/ Restart

Spec == Init /\ [][Next]_vars

(***************************************************************************)
(* Properties.                                                             *)
(***************************************************************************)
\* the id of the unit the running loop is at, "" outside the loops
CursorId ==
    IF pc = "posts" THEN posts[i].ID
    ELSE IF pc \in {"comments", "recent"} THEN comments[j].ID
    ELSE ""

\* a scan cycle has run to its end (scan is about to return, or has returned)
CycleDone == pc \in {"end", "wait"}

\* SaveFinding calls of this run for findings synthesized from unit id
FindTriedOf(id) == {f \in FindingRecs : f.unit = id /\ runHist.findTried[f] > 0}

\* the units of this cycle's successfully fetched batches that were unseen when it began
NewInCycle == cyc.fetched \ cyc.seenAtStart

\* C1: within one process run a unit that is in the seen set is never processed again: no
\* step inserts an audit row or a finding for it, and the step that meets it in a batch
\* changes no counter and no table.
C1_SeenUnitSkipped ==
    [][pc' # "new" =>
        /\ \A id \in seenMessages :
              /\ runHist'.msgTried[id] = runHist.msgTried[id]
              /\ \A f \in FindingRecs : f.unit = id => runHist'.findTried[f] = runHist.findTried[f]
        /\ CursorId \in seenMessages =>
              /\ ctr' = ctr
              /\ messages' = messages
              /\ api_key_findings' = api_key_findings
              /\ seenMessages' = seenMessages]_vars

\* C1 witness: a cycle has ended in which a unit this run had processed before was fetched again
C1_Witness ==
    /\ pc = "wait"
    /\ \E id \in cyc.fetched \cap cyc.seenAtStart :
          runHist.msgTried[id] = 1 /\ id \notin runHist.seeded

\* C2 (as claimed): once the start-up load is over, every id an earlier run marked seen is in
\* the seen set, and this run inserts no audit row and no finding for it.
C2_SeenSurvivesRestart ==
    \A id \in runHist.earlier :
        /\ pc \notin {"new", "init", "load", "exited"} => id \in seenMessages
        /\ runHist.msgTried[id] = 0
        /\ FindTriedOf(id) = {}

\* SaveFinding calls of this run that recorded post id pid and key k, over all units
EmittedFor(pid, k) ==
    {f \in FindingRecs : f.PostID = pid /\ f.APIKey = k /\ runHist.findTried[f] > 0}

\* C3 (as claimed): at most one finding is emitted per pair of recorded id and matched text.
C3_OnePerRecordedId ==
    \A pid \in PostIds, k \in Keys :
        /\ Cardinality(EmittedFor(pid, k)) <= 1
        /\ \A f \in EmittedFor(pid, k) : runHist.findTried[f] <= 1

\* C3 (amended): within one process run, at most one finding is emitted per pair of scanned
\* unit and matched text.
C3_OnePerUnit == \A f \in FindingRecs : runHist.findTried[f] <= 1

\* C3 witness: a comment whose text holds the same key twice was processed, its one finding
\* emitted, and a later cycle fetched the comment again
C3_Witness ==
    /\ pc = "wait"
    /\ "c1" \in cyc.fetched \cap cyc.seenAtStart
    /\ runHist.findTried[[unit |-> "c1", PostID |-> "p1", APIKey |-> "kA"]] = 1

\* C4 (as claimed): for an id seeded at start-up, this run emits no audit row for it and no
\* finding row that records it.
C4_NothingRefersToSeeded ==
    \A id \in runHist.seeded :
        /\ runHist.msgTried[id] = 0
        /\ \A f \in FindingRecs : runHist.findTried[f] > 0 => f.PostID # id

\* C4 (amended): for an id seeded at start-up, this run emits no audit row with that id and
\* no finding synthesized from the unit with that id.
C4_SeededNotProcessed ==
    \A id \in runHist.seeded :
        /\ runHist.msgTried[id] = 0
        /\ FindTriedOf(id) = {}

\* C4 witness: a cycle has ended that fetched a seeded unit
C4_Witness ==
    /\ pc = "wait"
    /\ runHist.seeded \cap cyc.fetched # {}

\* two cycles of one run have run in succession over the same remote content
TwoQuietCycles == pc = "wait" /\ prevCyc.feed # "none" /\ quiet = 2

\* C5 (as claimed): the second of two successive cycles over the same remote content counts
\* nothing.
C5_SecondCycleCountsNothing == TwoQuietCycles => ctr = ZeroCtr

\* C5 (amended): it counts nothing when each source that answered in the second cycle had
\* answered in the first.
C5_SecondCycleAfterSameSources ==
    /\ TwoQuietCycles
    /\ cyc.feed = "ok" => prevCyc.feed = "ok"
    /\ cyc.recent = "ok" => prevCyc.recent = "ok"
    => ctr = ZeroCtr /\ NewInCycle = {}

\* C5 witness: two successive cycles over the same non-empty content, every fetch answered
C5_Witness ==
    /\ TwoQuietCycles
    /\ cyc.feed = "ok" /\ prevCyc.feed = "ok"
    /\ cyc.recent = "ok" /\ prevCyc.recent = "ok"
    /\ {"p1", "c1"} \subseteq cyc.fetched

\* C6 (as claimed): the messages table never holds two rows with the same id.
C6_NoDuplicateAuditRow == \A id \in AllIds : messages[id] <= 1

\* C7: a unit this run began to process is in the seen set from the end of that step on,
\* whatever its inserts returned: so is every unit the running loop has passed.
C7_ProcessedIsSeen ==
    /\ \A id \in AllIds : runHist.msgTried[id] > 0 => id \in seenMessages
    /\ pc = "posts" => \A n \in 1..(i - 1) : posts[n].ID \in seenMessages
    /\ pc \in {"comments", "recent"} => \A n \in 1..(j - 1) : comments[n].ID \in seenMessages

\* C7 witness: a unit whose audit-row insert failed is in the seen set and the loop has moved on
C7_Witness ==
    /\ ctr.saveErrors > 0
    /\ \E id \in seenMessages :
          runHist.msgTried[id] = 1 /\ messages[id] = 0 /\ CursorId \notin {"", id}

\* C8: a cycle always reaches the recent comments and returns nil; when only the feed failed
\* the unseen recent comments are processed, and when only the recent comments failed the
\* posts and their comments are.
C8_SourceFailureNotFatal ==
    /\ pc = "wait" => scanErr = "nil"
    /\ CycleDone =>
          /\ cyc.recent \in {"ok", "err"}
          /\ cyc.feed = "err" /\ cyc.recent = "ok" =>
                cyc.fetched \subseteq seenMessages /\ ctr.newComments = Cardinality(NewInCycle)
          /\ cyc.feed = "ok" /\ cyc.recent = "err" =>
                cyc.fetched \subseteq seenMessages /\ ctr.newMessages = Cardinality(NewInCycle)

\* C8 witness: scan has returned from a cycle whose feed fetch failed and that counted a recent comment
C8_Witness ==
    /\ pc = "wait" /\ scanErr = "nil"
    /\ cyc.feed = "err" /\ cyc.recent = "ok"
    /\ ctr.newComments > 0

\* the comments FetchComments returned for post pid in this cycle
FetchedCommentsOf(pid) == {c \in cyc.fetched \cap CommentIds : CommentOf(c).PostID = pid}

\* C9: when a post's comment fetch failed, the cycle still handled every post of the feed:
\* each is seen, each new post with replies had its comments requested, the comments of the
\* posts whose request succeeded are seen and counted with their findings, and scan returns nil.
C9_CommentFetchFailureIsolated ==
    /\ pc = "end" /\ cyc.commentErr # {} =>
          /\ \A n \in DOMAIN posts :
                /\ posts[n].ID \in seenMessages
                /\ posts[n].ID \notin cyc.seenAtStart /\ posts[n].CommentCount > 0 =>
                      posts[n].ID \in cyc.commentOk \cup cyc.commentErr
          /\ \A a \in cyc.commentErr : runHist.msgTried[a] = 1
          /\ \A b \in cyc.commentOk : \A c \in FetchedCommentsOf(b) :
                /\ c \in seenMessages
                /\ c \notin cyc.seenAtStart =>
                      /\ runHist.msgTried[c] = 1
                      /\ Cardinality(FindTriedOf(c)) = Len(ScanComment(CommentTree(c)))
          /\ ctr.newComments = Cardinality(NewInCycle \cap CommentIds)
    /\ pc = "wait" /\ cyc.commentErr # {} => scanErr = "nil"

\* C9 witness: scan has returned from a cycle in which the comment fetch of new post p1 failed
\* and that of new post p2 succeeded and brought a new comment with findings
C9_Witness ==
    /\ pc = "wait" /\ scanErr = "nil"
    /\ cyc.commentErr = {"p1"} /\ cyc.commentOk = {"p2"}
    /\ "c2" \in NewInCycle
    /\ ctr.newComments > 0 /\ ctr.totalFindings >= 2

\* C10: at the end of a cycle every unit of a successfully fetched batch that was unseen when
\* the cycle began has been counted, has had its audit row and each of its findings
\* inserted once (successfully or not), and is seen.
C10_EveryNewUnitProcessed ==
    CycleDone =>
        /\ cyc.fetched \subseteq seenMessages
        /\ ctr.newMessages = Cardinality(NewInCycle)
        /\ \A id \in NewInCycle :
              /\ runHist.msgTried[id] = 1
              /\ Cardinality(FindTriedOf(id)) =
                    IF id \in PostIds
                    THEN Len(ScanPost(PostOf(id)))
                    ELSE Len(ScanComment(CommentTree(id)))

\* C10 witness: a cycle has ended in which an insert failed and a unit after the failing one
\* was processed
C10_Witness ==
    /\ pc = "wait"
    /\ ctr.saveErrors > 0
    /\ \E id \in NewInCycle : messages[id] = 0
    /\ \E id \in NewInCycle : messages[id] > 0 /\ FindTriedOf(id) # {}

\* the scan text of a unit: title, newline and body of a post, the body of a comment
ScanTextOf(id) ==
    IF id \in PostIds THEN PostOf(id).Title \o <<"\n">> \o PostOf(id).Content
    ELSE CommentOf(id).Content

\* the credential tokens that occur in the scan text of a unit
KeysIn(id) == {ScanTextOf(id)[n] : n \in DOMAIN ScanTextOf(id)} \cap Keys

\* C11: every unit this run processed had one finding emitted for each distinct key of its
\* own scan text, whether or not another unit, in this cycle or an earlier one, held the key.
C11_FindingsPerUnit ==
    \A id \in AllIds :
        runHist.msgTried[id] > 0 =>
            /\ {f.APIKey : f \in FindTriedOf(id)} = KeysIn(id)
            /\ \A f \in FindTriedOf(id) : runHist.findTried[f] = 1

\* C11 witness: a post, its comment and a comment of another post, processed in two
\* different cycles, hold the same key and each has its own finding for it
C11_Witness ==
    /\ pc = "wait"
    /\ "c2" \in NewInCycle /\ "p1" \in cyc.seenAtStart
    /\ \A f \in {[unit |-> "p1", PostID |-> "p1", APIKey |-> "kA"],
                 [unit |-> "c1", PostID |-> "p1", APIKey |-> "kA"],
                 [unit |-> "c2", PostID |-> "p2", APIKey |-> "kA"]} : runHist.findTried[f] = 1

\* no scan cycle has begun in this run of the process
NoCycleYet == cyc.feed = "none"

\* C17: the first scan cycle of a run starts from the step after LoadSeenMessages, with the
\* seen set as it was seeded and before Run ever waits for a tick; every later cycle is one
\* more cycle started from the wait by one tick.
C17_ImmediateThenTicks ==
    [][ /\ cycle' # cycle =>
              /\ cycle' = cycle + 1
              /\ IF NoCycleYet THEN pc = "initial" /\ seenMessages = runHist.seeded
                 ELSE pc = "wait"
        /\ pc' = "wait" => ~NoCycleYet' ]_vars

\* C17 witness: the immediate cycle of a run that was seeded with stored ids is under way
C17_Witness ==
    /\ InCycle(pc) /\ prevCyc.feed = "none"
    /\ runHist.seeded # {} /\ runHist.seeded \subseteq cyc.seenAtStart

\* C18: once a cycle has begun, Run ends only by the cancellation case of the select, and a
\* tick can start another cycle whenever Run waits, whatever failed in the cycle before.
C18_OnlyCancellationEnds ==
    /\ [](pc = "wait" /\ cycle < MaxCycles => ENABLED TickScan)
    /\ [][ pc' \in {"exited", "stopped"} /\ pc \notin {"exited", "stopped"} /\ ~NoCycleYet =>
              cancelled /\ pc = "wait" /\ pc' = "stopped" ]_vars

\* C18 witness: in the same run, a tick started another cycle after a cycle whose feed
\* fetch failed
C18_Witness ==
    /\ InCycle(pc) /\ prevCyc.feed = "err" /\ cyc.feed = "ok"
    /\ ~cancelled

\* C19: once the context is cancelled, no scan cycle starts.
C19_NoCycleAfterCancel == [][cancelled => cycle' = cycle]_vars

\* C20: Run returns only from the wait between cycles; a cycle that has begun goes on to
\* its end whether or not the context is cancelled, and when Run returns every unit of
\* every batch the last cycle fetched is marked seen.
C20_CycleRunsToEnd ==
    [][ /\ pc' = "stopped" /\ pc # "stopped" =>
              pc = "wait" /\ cancelled /\ cyc.fetched \subseteq seenMessages
        /\ InCycle(pc) /\ pc # "end" => InCycle(pc')
        /\ pc = "end" => pc' \in {"end", "wait"} ]_vars

\* C20 witness: no failure was injected, yet the comments of p1 could not be fetched: the
\* context was cancelled after the feed was fetched and before that request; the cycle
\* went on to p2, the next post of the batch, and Run returned after it
C20_Witness ==
    /\ pc = "stopped" /\ faults = 0
    /\ cyc.feed = "ok" /\ "p1" \in cyc.commentErr
    /\ "p2" \in NewInCycle /\ runHist.msgTried["p2"] = 1

(***************************************************************************)
(* The pattern registry character by character: a text is a sequence of    *)
(* one-character strings.  The scan cycles above work on tokens; here the  *)
(* same loop of ScanText, ScanPost and ScanComment runs over the listed    *)
(* patterns, and getAPIKeyType names the vendor of a match.                *)
(***************************************************************************)
LowerSeq ==
    <<"a", "b", "c", "d", "e", "f", "g", "h", "i", "j", "k", "l", "m",
      "n", "o", "p", "q", "r", "s", "t", "u", "v", "w", "x", "y", "z">>

UpperSeq ==
    <<"A", "B", "C", "D", "E", "F", "G", "H", "I", "J", "K", "L", "M",
      "N", "O", "P", "Q", "R", "S", "T", "U", "V", "W", "X", "Y", "Z">>

Lower == {LowerSeq[n] : n \in 1..Len(LowerSeq)}

Upper == {UpperSeq[n] : n \in 1..Len(UpperSeq)}

Digit == {"0", "1", "2", "3", "4", "5", "6", "7", "8", "9"}

LowerHex == {"a", "b", "c", "d", "e", "f"}

UpperHex == {"A", "B", "C", "D", "E", "F"}

\* \w
Word == Lower \cup Upper \cup Digit \cup {"_"}

\* \s
Space == {" ", "\t", "\n", "\r", "\f"}

\* the letter pairs of the two cases
LowerOf == [c \in Upper |-> LowerSeq[CHOOSE n \in 1..Len(UpperSeq) : UpperSeq[n] = c]]

UpperOf == [c \in Lower |-> UpperSeq[CHOOSE n \in 1..Len(LowerSeq) : LowerSeq[n] = c]]

\* strings.ToLower
ToLower(str) == [n \in 1..Len(str) |-> IF str[n] \in Upper THEN LowerOf[str[n]] ELSE str[n]]

\* patterns compiled without (?i)
FoldSetNone(S) == S

\* (?i): a set of characters with the other case of each of its letters
FoldSet(S) ==
    S \cup {LowerOf[c] : c \in S \cap Upper} \cup {UpperOf[c] : c \in S \cap Lower}

\* the pieces of a pattern: a character set repeated min to max times (max -1: no limit),
\* or an optional group of such pieces
Between(S, min, max) == <<[cls |-> S, min |-> min, max |-> max, opt |-> <<>>]>>

Times(S, n) == Between(S, n, n)

AtLeast(S, n) == Between(S, n, -1)

Maybe(S) == Between(S, 0, 1)

Opt(items) == <<[cls |-> {}, min |-> 0, max |-> 0, opt |-> items]>>

\* a literal string under (?i)
Lit(str) == [n \in 1..Len(str) |-> [cls |-> FoldSet({str[n]}), min |-> 1, max |-> 1, opt |-> <<>>]]

\* compileAPIKeyPatterns: the listed patterns, each compiled with the (?i) prefix
compileAPIKeyPatterns == <<
    \* sk-[a-zA-Z0-9]{20,}
    Lit(<<"s", "k", "-">>) \o AtLeast(FoldSet(Lower \cup Upper \cup Digit), 20),
    \* sk-proj-[a-zA-Z0-9_-]{20,}
    Lit(<<"s", "k", "-", "p", "r", "o", "j", "-">>)
        \o AtLeast(FoldSet(Lower \cup Upper \cup Digit \cup {"_", "-"}), 20),
    \* sk-ant-[a-zA-Z0-9_-]{20,}
    Lit(<<"s", "k", "-", "a", "n", "t", "-">>)
        \o AtLeast(FoldSet(Lower \cup Upper \cup Digit \cup {"_", "-"}), 20),
    \* AIza[0-9A-Za-z_-]{35}
    Lit(<<"A", "I", "z", "a">>)
        \o Times(FoldSet(Digit \cup Upper \cup Lower \cup {"_", "-"}), 35),
    \* AKIA[0-9A-Z]{16}
    Lit(<<"A", "K", "I", "A">>) \o Times(FoldSet(Digit \cup Upper), 16),
    \* ASIA[0-9A-Z]{16}
    Lit(<<"A", "S", "I", "A">>) \o Times(FoldSet(Digit \cup Upper), 16),
    \* ghp_[a-zA-Z0-9]{36}
    Lit(<<"g", "h", "p", "_">>) \o Times(FoldSet(Lower \cup Upper \cup Digit), 36),
    \* gho_[a-zA-Z0-9]{36}
    Lit(<<"g", "h", "o", "_">>) \o Times(FoldSet(Lower \cup Upper \cup Digit), 36),
    \* ghu_[a-zA-Z0-9]{36}
    Lit(<<"g", "h", "u", "_">>) \o Times(FoldSet(Lower \cup Upper \cup Digit), 36),
    \* ghs_[a-zA-Z0-9]{36}
    Lit(<<"g", "h", "s", "_">>) \o Times(FoldSet(Lower \cup Upper \cup Digit), 36),
    \* ghr_[a-zA-Z0-9]{36}
    Lit(<<"g", "h", "r", "_">>) \o Times(FoldSet(Lower \cup Upper \cup Digit), 36),
    \* github_pat_[a-zA-Z0-9]{22}_[a-zA-Z0-9]{59}
    Lit(<<"g", "i", "t", "h", "u", "b", "_", "p", "a", "t", "_">>)
        \o Times(FoldSet(Lower \cup Upper \cup Digit), 22) \o Lit(<<"_">>)
        \o Times(FoldSet(Lower \cup Upper \cup Digit), 59),
    \* sk_live_[0-9a-zA-Z]{24,}
    Lit(<<"s", "k", "_", "l", "i", "v", "e", "_">>)
        \o AtLeast(FoldSet(Digit \cup Lower \cup Upper), 24),
    \* sk_test_[0-9a-zA-Z]{24,}
    Lit(<<"s", "k", "_", "t", "e", "s", "t", "_">>)
        \o AtLeast(FoldSet(Digit \cup Lower \cup Upper), 24),
    \* rk_live_[0-9a-zA-Z]{24,}
    Lit(<<"r", "k", "_", "l", "i", "v", "e", "_">>)
        \o AtLeast(FoldSet(Digit \cup Lower \cup Upper), 24),
    \* rk_test_[0-9a-zA-Z]{24,}
    Lit(<<"r", "k", "_", "t", "e", "s", "t", "_">>)
        \o AtLeast(FoldSet(Digit \cup Lower \cup Upper), 24),
    \* SK[0-9a-fA-F]{32}
    Lit(<<"S", "K">>) \o Times(FoldSet(Digit \cup LowerHex \cup UpperHex), 32),
    \* SG\.[a-zA-Z0-9_-]{22}\.[a-zA-Z0-9_-]{43}
    Lit(<<"S", "G", ".">>) \o Times(FoldSet(Lower \cup Upper \cup Digit \cup {"_", "-"}), 22)
        \o Lit(<<".">>) \o Times(FoldSet(Lower \cup Upper \cup Digit \cup {"_", "-"}), 43),
    \* xoxb-[0-9]{10,13}-[0-9]{10,13}-[a-zA-Z0-9]{24}
    Lit(<<"x", "o", "x", "b", "-">>) \o Between(FoldSet(Digit), 10, 13) \o Lit(<<"-">>)
        \o Between(FoldSet(Digit), 10, 13) \o Lit(<<"-">>)
        \o Times(FoldSet(Lower \cup Upper \cup Digit), 24),
    \* xoxp-[0-9]{10,13}-[0-9]{10,13}-[a-zA-Z0-9]{24}
    Lit(<<"x", "o", "x", "p", "-">>) \o Between(FoldSet(Digit), 10, 13) \o Lit(<<"-">>)
        \o Between(FoldSet(Digit), 10, 13) \o Lit(<<"-">>)
        \o Times(FoldSet(Lower \cup Upper \cup Digit), 24),
    \* xoxa-[0-9]{10,13}-[0-9]{10,13}-[a-zA-Z0-9]{24}
    Lit(<<"x", "o", "x", "a", "-">>) \o Between(FoldSet(Digit), 10, 13) \o Lit(<<"-">>)
        \o Between(FoldSet(Digit), 10, 13) \o Lit(<<"-">>)
        \o Times(FoldSet(Lower \cup Upper \cup Digit), 24),
    \* [MN][A-Za-z\d]{23,}\.[\w-]{6}\.[\w-]{27}
    Times(FoldSet({"M", "N"}), 1) \o AtLeast(FoldSet(Upper \cup Lower \cup Digit), 23)
        \o Lit(<<".">>) \o Times(FoldSet(Word \cup {"-"}), 6) \o Lit(<<".">>)
        \o Times(FoldSet(Word \cup {"-"}), 27),
    \* [0-9]{8,10}:[a-zA-Z0-9_-]{35}
    Between(FoldSet(Digit), 8, 10) \o Lit(<<":">>)
        \o Times(FoldSet(Lower \cup Upper \cup Digit \cup {"_", "-"}), 35),
    \* sbp_[a-zA-Z0-9]{40,}
    Lit(<<"s", "b", "p", "_">>) \o AtLeast(FoldSet(Lower \cup Upper \cup Digit), 40),
    \* eyJhbGciOiJIUzI1NiIsInR5cCI6IkpXVCJ9\.[a-zA-Z0-9_-]+\.[a-zA-Z0-9_-]+
    Lit(<<"e", "y", "J", "h", "b", "G", "c", "i", "O", "i", "J", "I", "U", "z", "I", "1", "N", "i", "I", "s", "I", "n", "R", "5", "c", "C", "I", "6", "I", "k", "p", "X", "V", "C", "J", "9", ".">>)
        \o AtLeast(FoldSet(Lower \cup Upper \cup Digit \cup {"_", "-"}), 1) \o Lit(<<".">>)
        \o AtLeast(FoldSet(Lower \cup Upper \cup Digit \cup {"_", "-"}), 1),
    \* moltbook_sk_[a-zA-Z0-9_-]{20,}
    Lit(<<"m", "o", "l", "t", "b", "o", "o", "k", "_", "s", "k", "_">>)
        \o AtLeast(FoldSet(Lower \cup Upper \cup Digit \cup {"_", "-"}), 20),
    \* api[_-]?key[_-]?[=:]["']?[a-zA-Z0-9_-]{20,}["']?
    Lit(<<"a", "p", "i">>) \o Maybe(FoldSet({"_", "-"})) \o Lit(<<"k", "e", "y">>)
        \o Maybe(FoldSet({"_", "-"})) \o Times(FoldSet({"=", ":"}), 1)
        \o Maybe(FoldSet({"\"", "'"}))
        \o AtLeast(FoldSet(Lower \cup Upper \cup Digit \cup {"_", "-"}), 20)
        \o Maybe(FoldSet({"\"", "'"})),
    \* apikey[=:]["']?[a-zA-Z0-9_-]{20,}["']?
    Lit(<<"a", "p", "i", "k", "e", "y">>) \o Times(FoldSet({"=", ":"}), 1)
        \o Maybe(FoldSet({"\"", "'"}))
        \o AtLeast(FoldSet(Lower \cup Upper \cup Digit \cup {"_", "-"}), 20)
        \o Maybe(FoldSet({"\"", "'"})),
    \* secret[_-]?key[_-]?[=:]["']?[a-zA-Z0-9_-]{20,}["']?
    Lit(<<"s", "e", "c", "r", "e", "t">>) \o Maybe(FoldSet({"_", "-"}))
        \o Lit(<<"k", "e", "y">>) \o Maybe(FoldSet({"_", "-"})) \o Times(FoldSet({"=", ":"}), 1)
        \o Maybe(FoldSet({"\"", "'"}))
        \o AtLeast(FoldSet(Lower \cup Upper \cup Digit \cup {"_", "-"}), 20)
        \o Maybe(FoldSet({"\"", "'"})),
    \* access[_-]?token[=:]["']?[a-zA-Z0-9_-]{20,}["']?
    Lit(<<"a", "c", "c", "e", "s", "s">>) \o Maybe(FoldSet({"_", "-"}))
        \o Lit(<<"t", "o", "k", "e", "n">>) \o Times(FoldSet({"=", ":"}), 1)
        \o Maybe(FoldSet({"\"", "'"}))
        \o AtLeast(FoldSet(Lower \cup Upper \cup Digit \cup {"_", "-"}), 20)
        \o Maybe(FoldSet({"\"", "'"})),
    \* bearer\s+[a-zA-Z0-9_-]{20,}
    Lit(<<"b", "e", "a", "r", "e", "r">>) \o AtLeast(Space, 1)
        \o AtLeast(FoldSet(Lower \cup Upper \cup Digit \cup {"_", "-"}), 20),
    \* -----BEGIN\s+(RSA\s+)?PRIVATE\s+KEY-----
    Lit(<<"-", "-", "-", "-", "-", "B", "E", "G", "I", "N">>) \o AtLeast(Space, 1)
        \o Opt(Lit(<<"R", "S", "A">>) \o AtLeast(Space, 1))
        \o Lit(<<"P", "R", "I", "V", "A", "T", "E">>) \o AtLeast(Space, 1)
        \o Lit(<<"K", "E", "Y", "-", "-", "-", "-", "-">>),
    \* -----BEGIN\s+OPENSSH\s+PRIVATE\s+KEY-----
    Lit(<<"-", "-", "-", "-", "-", "B", "E", "G", "I", "N">>) \o AtLeast(Space, 1)
        \o Lit(<<"O", "P", "E", "N", "S", "S", "H">>) \o AtLeast(Space, 1)
        \o Lit(<<"P", "R", "I", "V", "A", "T", "E">>) \o AtLeast(Space, 1)
        \o Lit(<<"K", "E", "Y", "-", "-", "-", "-", "-">>) >>

\* how many characters from position pos on are in S, at most max of them
RunLen(S, text, pos, max) ==
    LET stops == {p \in pos..Len(text) : text[p] \notin S}
        stop == IF stops = {} THEN Len(text) + 1
                ELSE CHOOSE p \in stops : \A q \in stops : p <= q
    IN  IF pos > Len(text) THEN 0
        ELSE IF text[pos] \notin S THEN 0
        ELSE IF max >= 0 /\ stop - pos > max THEN max ELSE stop - pos

\* the match of the pieces from piece k on that starts at pos: the position after it, or
\* 0 when there is none (repetition is greedy; in the listed patterns what follows a
\* repeated set never begins with a character of the set, so no shorter run can match)
RECURSIVE MatchAt(_, _, _, _)
MatchAt(items, k, text, pos) ==
    IF k > Len(items) THEN pos
    ELSE IF items[k].opt # <<>>
    THEN LET e == MatchAt(items[k].opt, 1, text, pos)
         IN  MatchAt(items, k + 1, text, IF e = 0 THEN pos ELSE e)
    ELSE LET n == RunLen(items[k].cls, text, pos, items[k].max)
         IN  IF n < items[k].min THEN 0 ELSE MatchAt(items, k + 1, text, pos + n)

\* pattern.FindAllString(text, -1): the leftmost matches, one after the other
RECURSIVE FindAllFrom(_, _, _)
FindAllFrom(re, text, pos) ==
    LET starts == {p \in pos..Len(text) : MatchAt(re, 1, text, p) # 0}
        start == CHOOSE p \in starts : \A q \in starts : p <= q
        end == MatchAt(re, 1, text, start)
    IN  IF starts = {} THEN <<>>
        ELSE <<SubSeq(text, start, end - 1)>> \o FindAllFrom(re, text, end)

\* strings.TrimSpace (of the white space it strips, texts here only hold the characters of \s)
RECURSIVE TrimSpace(_)
TrimSpace(str) ==
    IF str = <<>> THEN <<>>
    ELSE IF Head(str) \in Space THEN TrimSpace(Tail(str))
    ELSE IF str[Len(str)] \in Space THEN TrimSpace(SubSeq(str, 1, Len(str) - 1))
    ELSE str

\* the trimmed matches in the order the two nested loops of ScanText visit them
RECURSIVE NormalizedMatches(_, _)
NormalizedMatches(n, text) ==
    IF n = 0 THEN <<>>
    ELSE LET ms == FindAllFrom(compileAPIKeyPatterns[n], text, 1)
         IN  NormalizedMatches(n - 1, text) \o [m \in 1..Len(ms) |-> TrimSpace(ms[m])]

\* strings.HasPrefix
HasPrefix(str, prefix) ==
    Len(str) >= Len(prefix) /\ SubSeq(str, 1, Len(prefix)) = prefix

\* strings.Contains
Contains(str, sub) ==
    \E p \in 1..(Len(str) - Len(sub) + 1) : SubSeq(str, p, p + Len(sub) - 1) = sub

\* the last case that holds taken instead of the first
LastCase(cases) == cases[CHOOSE n \in 1..Len(cases) : cases[n].hit /\ \A m \in (n + 1)..Len(cases) : ~cases[m].hit].type

\* the first case of the switch is the one that counts
FirstCase(cases) == cases[CHOOSE n \in 1..Len(cases) : cases[n].hit /\ \A m \in 1..(n - 1) : ~cases[m].hit].type

\* getAPIKeyType: the vendor of a match, from its lower-cased text
getAPIKeyType(key0) ==
    LET key == ToLower(key0)
        P(prefixes) == \E p \in prefixes : HasPrefix(key, p)
    IN  FirstCase(<<
          [type |-> "Anthropic", hit |-> P({<<"s", "k", "-", "a", "n", "t", "-">>})],
          [type |-> "OpenAI", hit |-> P({<<"s", "k", "-", "p", "r", "o", "j", "-">>, <<"s", "k", "-">>})],
          [type |-> "Google", hit |-> P({<<"a", "i", "z", "a">>})],
          [type |-> "AWS", hit |-> P({<<"a", "k", "i", "a">>, <<"a", "s", "i", "a">>})],
          [type |-> "GitHub", hit |-> P({<<"g", "h", "p", "_">>, <<"g", "h", "o", "_">>, <<"g", "h", "u", "_">>,
                                         <<"g", "h", "s", "_">>, <<"g", "h", "r", "_">>,
                                         <<"g", "i", "t", "h", "u", "b", "_", "p", "a", "t", "_">>})],
          [type |-> "Stripe", hit |-> P({<<"s", "k", "_", "l", "i", "v", "e", "_">>,
                                         <<"s", "k", "_", "t", "e", "s", "t", "_">>,
                                         <<"r", "k", "_", "l", "i", "v", "e", "_">>,
                                         <<"r", "k", "_", "t", "e", "s", "t", "_">>})],
          [type |-> "SendGrid", hit |-> P({<<"s", "g", ".">>})],
          [type |-> "Slack", hit |-> P({<<"x", "o", "x", "b", "-">>, <<"x", "o", "x", "p", "-">>,
                                        <<"x", "o", "x", "a", "-">>})],
          [type |-> "Supabase", hit |-> P({<<"s", "b", "p", "_">>})],
          [type |-> "Moltbook", hit |-> P({<<"m", "o", "l", "t", "b", "o", "o", "k", "_", "s", "k", "_">>})],
          [type |-> "PrivateKey", hit |-> /\ Contains(key, <<"b", "e", "g", "i", "n">>)
                                          /\ Contains(key, <<"p", "r", "i", "v", "a", "t", "e", " ", "k", "e", "y">>)],
          [type |-> "Generic", hit |-> \/ Contains(key, <<"a", "p", "i">>)
                                       \/ Contains(key, <<"s", "e", "c", "r", "e", "t">>)
                                       \/ Contains(key, <<"t", "o", "k", "e", "n">>)],
          [type |-> "Unknown", hit |-> TRUE] >>)

\* the distinct trimmed matches of a text, in the order of their first match
KeysOfText(text) ==
    UniqueKeys(NormalizedMatches(Len(compileAPIKeyPatterns), text), NewFoundKeys)

\* ScanText: the keys found and, at the same positions, their types
ScanText(text) ==
    LET keys == KeysOfText(text)
    IN  [keys |-> keys, types |-> [n \in 1..Len(keys) |-> getAPIKeyType(keys[n])]]

\* the body of the post scanned without its title
textToScanBodyOnly(post) == post.Content

\* ScanPost's textToScan: title, newline, body
textToScan(post) == post.Title \o <<"\n">> \o post.Content

\* ScanPost over characters: the findings of title + "\n" + content
ScanPostText(post) ==
    LET keys == KeysOfText(textToScan(post))
    IN  [n \in 1..Len(keys) |->
            [PostID |-> post.ID, APIKey |-> keys[n], APIKeyType |-> getAPIKeyType(keys[n])]]

\* ScanComment over characters: the findings of the content
ScanCommentText(comment) ==
    LET keys == KeysOfText(comment.Content)
    IN  [n \in 1..Len(keys) |->
            [PostID |-> comment.PostID, APIKey |-> keys[n],
             APIKeyType |-> getAPIKeyType(keys[n])]]

\* the types with every type kept at its first place only
DistinctTypes(apiKeyTypes) ==
    LET first == SelectSeq([n \in 1..Len(apiKeyTypes) |-> n],
                           LAMBDA n : \A m \in 1..(n - 1) : apiKeyTypes[m] # apiKeyTypes[n])
    IN  [k \in 1..Len(first) |-> apiKeyTypes[first[k]]]

\* APIKeyTypes: apiKeyTypes, the slice as ScanText returned it
RecordedTypes(apiKeyTypes) == apiKeyTypes

\* PostToMessage: the audit record of a post, with the types ScanText returns for
\* title + "\n" + content
PostToMessage(post) ==
    LET apiKeyTypes == ScanText(post.Title \o <<"\n">> \o post.Content).types
    IN  [ID |-> post.ID, MessageType |-> "post", PostID |-> post.ID,
         Title |-> post.Title, Content |-> post.Content,
         HasAPIKey |-> Len(apiKeyTypes) > 0, APIKeyTypes |-> RecordedTypes(apiKeyTypes)]

\* CommentToMessage: the audit record of a comment, with the types ScanText returns for
\* the content
CommentToMessage(comment) ==
    LET apiKeyTypes == ScanText(comment.Content).types
    IN  [ID |-> comment.ID, MessageType |-> "comment", PostID |-> comment.PostID,
         Title |-> <<>>, Content |-> comment.Content,
         HasAPIKey |-> Len(apiKeyTypes) > 0, APIKeyTypes |-> RecordedTypes(apiKeyTypes)]

(***************************************************************************)
(* The pure functions called on their own: ScanText, ScanPost, ScanComment *)
(* and the flatten closure of FetchComments, each applied once to an input *)
(* drawn from a bounded set.                                               *)
(***************************************************************************)
\* how many pieces a composed text has at most
MaxChunks == 2

\* how many comments a comment forest has at most
MaxNodes == 4

Rep(c, n) == [k \in 1..n |-> c]

SkAntPrefix == <<"s", "k", "-", "a", "n", "t", "-">>

SkPrefix == <<"s", "k", "-">>

\* credentials and prose to compose texts from
KeyAnt == SkAntPrefix \o Rep("a", 24)

KeyAntUpper == <<"S", "K", "-", "A", "N", "T", "-">> \o Rep("A", 24)

KeyTest ==
    SkPrefix \o <<"t", "e", "s", "t">>
        \o <<"1", "2", "3", "4", "5", "6", "7", "8", "9", "0", "1", "2">>
        \o <<"3", "4", "5", "6", "7", "8", "9", "0", "1", "2", "3", "4">>

Prose == <<"h", "e", "r", "e", " ", "i", "s", " ", "m", "y", " ", "k", "e", "y", " ">>

GenericKey == <<"a", "p", "i", "k", "e", "y", "=">> \o Rep("b", 20)

AwsKey == <<"A", "K", "I", "A">> \o Rep("7", 16)

\* the vendor prefixes, lower-cased, each with the vendor it stands for
VendorPrefixes ==
    {[prefix |-> <<"s", "k", "-", "a", "n", "t", "-">>, type |-> "Anthropic"],
     [prefix |-> <<"s", "k", "-", "p", "r", "o", "j", "-">>, type |-> "OpenAI"],
     [prefix |-> <<"s", "k", "-">>, type |-> "OpenAI"],
     [prefix |-> <<"a", "i", "z", "a">>, type |-> "Google"],
     [prefix |-> <<"a", "k", "i", "a">>, type |-> "AWS"],
     [prefix |-> <<"a", "s", "i", "a">>, type |-> "AWS"],
     [prefix |-> <<"g", "h", "p", "_">>, type |-> "GitHub"],
     [prefix |-> <<"g", "h", "o", "_">>, type |-> "GitHub"],
     [prefix |-> <<"g", "h", "u", "_">>, type |-> "GitHub"],
     [prefix |-> <<"g", "h", "s", "_">>, type |-> "GitHub"],
     [prefix |-> <<"g", "h", "r", "_">>, type |-> "GitHub"],
     [prefix |-> <<"g", "i", "t", "h", "u", "b", "_", "p", "a", "t", "_">>, type |-> "GitHub"],
     [prefix |-> <<"s", "k", "_", "l", "i", "v", "e", "_">>, type |-> "Stripe"],
     [prefix |-> <<"s", "k", "_", "t", "e", "s", "t", "_">>, type |-> "Stripe"],
     [prefix |-> <<"r", "k", "_", "l", "i", "v", "e", "_">>, type |-> "Stripe"],
     [prefix |-> <<"r", "k", "_", "t", "e", "s", "t", "_">>, type |-> "Stripe"],
     [prefix |-> <<"s", "g", ".">>, type |-> "SendGrid"],
     [prefix |-> <<"x", "o", "x", "b", "-">>, type |-> "Slack"],
     [prefix |-> <<"x", "o", "x", "p", "-">>, type |-> "Slack"],
     [prefix |-> <<"x", "o", "x", "a", "-">>, type |-> "Slack"],
     [prefix |-> <<"s", "b", "p", "_">>, type |-> "Supabase"],
     [prefix |-> <<"m", "o", "l", "t", "b", "o", "o", "k", "_", "s", "k", "_">>, type |-> "Moltbook"]}

\* the vendor prefixes the string begins with, case ignored
VendorPrefixesOf(key) == {v \in VendorPrefixes : HasPrefix(ToLower(key), v.prefix)}

\* the string with its lower-case letters in upper case
ToUpper(str) == [n \in 1..Len(str) |-> IF str[n] \in Lower THEN UpperOf[str[n]] ELSE str[n]]

\* what may follow the beginning of a string to classify: the words of the generic rule,
\* the private-key markers, or none of them
TypeTails ==
    {<<"0", "0", "0", "0">>, <<"m", "y", "_", "a", "p", "i", "_", "1">>, <<"S", "e", "c", "r", "e", "t">>, <<"t", "o", "k", "e", "n">>,
     <<"-", "-", "-", "-", "-", "B", "E", "G", "I", "N", " ", "R", "S", "A", " ", "P", "R", "I", "V", "A", "T", "E", " ", "K", "E", "Y", "-", "-", "-", "-", "-">>,
     <<"b", "e", "g", "i", "n", " ", "a", "p", "i", " ", "p", "r", "i", "v", "a", "t", "e", " ", "k", "e", "y">>}

\* strings to classify: every vendor prefix, in lower and in upper case, or no vendor
\* prefix, before every tail
TypeInputs ==
    {pre \o t : pre \in {v.prefix : v \in VendorPrefixes}
                        \cup {ToUpper(v.prefix) : v \in VendorPrefixes}
                        \cup {<<>>, <<"z", "z", "-">>},
                t \in TypeTails}

\* texts the generic patterns match: the assignments and the bearer header
BearerKey == <<"b", "e", "a", "r", "e", "r", " ">> \o Rep("b", 20)

GenericTexts ==
    {<<"a", "p", "i", "_", "k", "e", "y", "=">> \o Rep("b", 20),
     <<"A", "P", "I", "K", "E", "Y", ":", "'">> \o Rep("b", 20) \o <<"'">>,
     <<"s", "e", "c", "r", "e", "t", "-", "k", "e", "y", "=">> \o Rep("b", 20),
     <<"a", "c", "c", "e", "s", "s", "_", "t", "o", "k", "e", "n", "=">> \o Rep("b", 20),
     BearerKey,
     <<"A", "u", "t", "h", "o", "r", "i", "z", "a", "t", "i", "o", "n", ":", " ", "B", "e", "a", "r", "e", "r", " ">> \o Rep("Z", 20),
     <<"b", "e", "a", "r", "e", "r", " ", "m", "y", "-", "t", "o", "k", "e", "n", "-">> \o Rep("b", 20)}

Chunks ==
    {KeyAnt \o <<" ">>, KeyAntUpper \o <<"\n">>, KeyTest, Prose, GenericKey \o <<" ">>,
     AwsKey \o <<" ">>, <<" ">>}

\* the texts made of at most n pieces
RECURSIVE Texts(_)
Texts(n) ==
    IF n = 0 THEN {<<>>}
    ELSE Texts(n - 1) \cup {t \o c : t \in Texts(n - 1), c \in Chunks}

\* alphanumeric tails of n characters: one character repeated, with a word inside or not
KeyTails(n) ==
    {Rep(c, a) \o w \o Rep(c, n - a - Len(w)) :
        c \in {"a", "Z", "7"},
        w \in {<<>>, <<"A", "K", "I", "A">>, <<"a", "s", "i", "a">>, <<"s", "k">>},
        a \in {0, 4, 8}}

SkAntKeys == {SkAntPrefix \o t : t \in KeyTails(24)}

SkKeys == {SkPrefix \o t : t \in KeyTails(24) \cup KeyTails(25) \cup KeyTails(36)}

TextInputs ==
    Texts(MaxChunks) \cup SkAntKeys \cup SkKeys \cup {Prose \o k : k \in SkKeys}
        \cup GenericTexts

PostInputs == {[ID |-> "p1", Title |-> t, Content |-> c] : t \in Texts(1), c \in Texts(1)}

CommentInputs == {[ID |-> "c1", PostID |-> "p1", Content |-> t] : t \in Texts(MaxChunks)}

\* comment forests of n comments: comment k replies to comment par[k], or to the post
\* itself when par[k] = 0; the replies of a comment are in the order of their numbers
ForestsOf(n) == {par \in [1..n -> 0..(n - 1)] : \A k \in 1..n : par[k] < k}

ForestInputs == UNION {ForestsOf(n) : n \in 0..MaxNodes}

NodeNames == <<"A", "B", "C", "D", "E", "F">>

\* the replies to comment k (to the post when k = 0), as numbers
KidsOf(par, k) == SelectSeq([n \in 1..Len(par) |-> n], LAMBDA c : par[c] = k)

\* comment k as the response holds it, its replies nested inside
RECURSIVE NodeOf(_, _)
NodeOf(par, k) ==
    [ID |-> NodeNames[k],
     Replies |-> [n \in 1..Len(KidsOf(par, k)) |-> NodeOf(par, KidsOf(par, k)[n])]]

\* commentsResp.Comments for the forest
ForestOf(par) == [n \in 1..Len(KidsOf(par, 0)) |-> NodeOf(par, KidsOf(par, 0)[n])]

scannerVars == <<published, messages, api_key_findings, pc, cancelled, seenMessages,
                 cycle, posts, i, comments, j, ctr, scanErr, faults, runHist, cyc,
                 prevCyc, quiet>>

\* how many of the listed patterns regexp.Compile rejects at most
MaxBad == 2

\* the sets of listed patterns, by their place in the list, that regexp.Compile may reject
RECURSIVE BadSets(_)
BadSets(k) ==
    IF k = 0 THEN {{}}
    ELSE BadSets(k - 1) \cup {bad \cup {n} : bad \in BadSets(k - 1),
                                             n \in 1..Len(compileAPIKeyPatterns)}

BadInputs == BadSets(MaxBad)

\* construction given up at the first pattern that does not compile
OnCompileErrorStop(compiled) == <<>>

\* the branch of the loop for a pattern that does not compile: log and continue
OnCompileError(compiled) == compiled

\* the loop of compileAPIKeyPatterns over the first n listed patterns, regexp.Compile
\* failing for the patterns in bad
RECURSIVE CompileLoop(_, _)
CompileLoop(n, bad) ==
    IF n = 0 THEN <<>>
    ELSE LET compiled == CompileLoop(n - 1, bad)
         IN  IF n \in bad THEN OnCompileError(compiled)
             ELSE Append(compiled, compileAPIKeyPatterns[n])

\* the units whose loop body is run step by step: a post with or without replies, or a
\* comment
UnitInputs ==
    {[kind |-> "post", unit |-> p, CommentCount |-> c] :
        p \in {q \in PostInputs : q.Content \in {<<>>, AwsKey \o <<" ">>}}, c \in {0, 1}}
        \cup {[kind |-> "comment", unit |-> [ID |-> "c1", PostID |-> "p1", Content |-> t],
               CommentCount |-> 0] : t \in Texts(1) \cup {KeyAnt \o <<" ">> \o AwsKey}}

\* the findings ScanPost or ScanComment returns for the unit
FindingsOfUnit(in) ==
    IF in.kind = "post" THEN ScanPostText(in.unit) ELSE ScanCommentText(in.unit)

\* the post marked seen only after its comments were fetched
UnitOrderMarkLast == <<"SaveMessage", "Scan", "SaveFinding", "FetchComments", "markSeen">>

\* the order of the statements of the loop body for an unseen unit: SaveMessage, ScanPost
\* or ScanComment, the loop over the findings with SaveFinding, the mark in seenMessages
\* and, in the post loop, scanPostComments with its FetchComments
UnitOrder == <<"SaveMessage", "Scan", "SaveFinding", "markSeen", "FetchComments">>

\* the statement is executed for the unit: the finding loop has a body to run only when
\* there are findings, and comments are fetched for a post with CommentCount > 0 only
Applies(in, findings, name) ==
    IF name = "SaveFinding" THEN findings # <<>>
    ELSE IF name = "FetchComments" THEN in.kind = "post" /\ in.CommentCount > 0
    ELSE TRUE

\* the place in UnitOrder of the next statement executed after place at, one past the end
\* when there is none
NextAt(in, findings, at) ==
    LET later == {k \in (at + 1)..Len(UnitOrder) : Applies(in, findings, UnitOrder[k])}
    IN  IF later = {} THEN Len(UnitOrder) + 1 ELSE CHOOSE k \in later : \A m \in later : k <= m

\* the loop body about to run for an unseen unit
UnitCallOf(in) ==
    [op |-> "unit", in |-> in, done |-> FALSE,
     out |-> [log |-> <<>>, at |-> 1, findings |-> <<>>, n |-> 1, seen |-> FALSE]]

CallOf(op, in) == [op |-> op, in |-> in, out |-> <<>>, done |-> FALSE]

InitFn ==
    /\ InitScanner
    /\ InitDashboard
    /\ call \in {CallOf("ScanText", t) : t \in TextInputs}
                \cup {CallOf("ScanPost", p) : p \in PostInputs}
                \cup {CallOf("ScanComment", c) : c \in CommentInputs}
                \cup {CallOf("flatten", par) : par \in ForestInputs}
                \cup {CallOf("PostToMessage", p) : p \in PostInputs}
                \cup {CallOf("getAPIKeyType", k) : k \in TypeInputs}
                \cup {CallOf("compileAPIKeyPatterns", bad) : bad \in BadInputs}
                \cup {UnitCallOf(u) : u \in UnitInputs}
                \cup {CallOf("CommentToMessage", c) : c \in CommentInputs}

Return(op, out) ==
    /\ call.op = op /\ ~call.done
    /\ call' = [call EXCEPT !.out = out, !.done = TRUE]
    /\ UNCHANGED <<webVars, scannerVars>>

ApplyScanText == Return("ScanText", ScanText(call.in))

ApplyScanPost == Return("ScanPost", ScanPostText(call.in))

ApplyScanComment == Return("ScanComment", ScanCommentText(call.in))

ApplyFlatten == Return("flatten", flatten(ForestOf(call.in)))

ApplyPostToMessage == Return("PostToMessage", PostToMessage(call.in))

ApplyCommentToMessage == Return("CommentToMessage", CommentToMessage(call.in))

ApplyGetAPIKeyType == Return("getAPIKeyType", getAPIKeyType(call.in))

ApplyCompileAPIKeyPatterns ==
    Return("compileAPIKeyPatterns", CompileLoop(Len(compileAPIKeyPatterns), call.in))

\* the loop body at the statement of the given name
AtStatement(name) ==
    /\ call.op = "unit" /\ ~call.done
    /\ UnitOrder[call.out.at] = name

\* the statement done: the call is at its next statement, or the loop body is over
Advance(log, findings, seen) ==
    LET at == NextAt(call.in, findings, call.out.at)
    IN  /\ call' = [call EXCEPT !.out = [log |-> log, at |-> at, findings |-> findings,
                                         n |-> 1, seen |-> seen],
                                !.done = at > Len(UnitOrder)]
        /\ UNCHANGED <<webVars, scannerVars>>

\* SaveMessage for the unit, failing or not
UnitSaveMessage ==
    /\ AtStatement("SaveMessage")
    /\ \E ok \in BOOLEAN :
          Advance(Append(call.out.log, [op |-> "SaveMessage", key |-> <<>>, ok |-> ok]),
                  call.out.findings, call.out.seen)

\* findings := s.ScanPost(post), or s.ScanComment(comment, ...)
UnitScan ==
    /\ AtStatement("Scan")
    /\ Advance(call.out.log, FindingsOfUnit(call.in), call.out.seen)

\* one iteration of the loop over the findings: SaveFinding, failing or not
UnitSaveFinding ==
    /\ AtStatement("SaveFinding")
    /\ \E ok \in BOOLEAN :
          LET findings == call.out.findings
              entry == [op |-> "SaveFinding", key |-> findings[call.out.n].APIKey, ok |-> ok]
          IN  IF call.out.n < Len(findings)
              THEN /\ call' = [call EXCEPT !.out.log = Append(@, entry), !.out.n = @ + 1]
                   /\ UNCHANGED <<webVars, scannerVars>>
              ELSE Advance(Append(call.out.log, entry), findings, call.out.seen)

\* s.seenMessages[id] = true
UnitMarkSeen ==
    /\ AtStatement("markSeen")
    /\ Advance(Append(call.out.log, [op |-> "markSeen", key |-> <<>>, ok |-> TRUE]),
               call.out.findings, TRUE)

\* scanPostComments: FetchComments for the post, failing or not
UnitFetchComments ==
    /\ AtStatement("FetchComments")
    /\ \E ok \in BOOLEAN :
          Advance(Append(call.out.log, [op |-> "FetchComments", key |-> <<>>, ok |-> ok]),
                  call.out.findings, call.out.seen)

NextFn ==
    \/ UnitSaveMessage
    \/ UnitScan
    \/ UnitSaveFinding
    \/ UnitMarkSeen
    \/ UnitFetchComments
    \/ ApplyCompileAPIKeyPatterns
    \/ ApplyGetAPIKeyType
    \/ ApplyScanText
    \/ ApplyScanPost
    \/ ApplyScanComment
    \/ ApplyFlatten
    \/ ApplyPostToMessage
    \/ ApplyCommentToMessage

SpecFn == InitFn /\ [][NextFn]_vars

\* a scanning function has returned
Scanned == call.done /\ call.op \in {"ScanText", "ScanPost", "ScanComment"}

\* the text the called function scanned
ScannedText ==
    IF call.op = "ScanPost" THEN call.in.Title \o <<"\n">> \o call.in.Content
    ELSE IF call.op = "ScanComment" THEN call.in.Content
    ELSE call.in

\* the matched strings the called function returned, in their order
OutKeys ==
    IF call.op = "ScanText" THEN call.out.keys
    ELSE [n \in 1..Len(call.out) |-> call.out[n].APIKey]

Alnum == Lower \cup Upper \cup Digit

\* key is prefix followed by alphanumeric characters only, at least min of them
IsPlainKey(key, prefix, min) ==
    /\ HasPrefix(key, prefix)
    /\ Len(key) >= Len(prefix) + min
    /\ \A n \in (Len(prefix) + 1)..Len(key) : key[n] \in Alnum

\* C12: ScanText, ScanPost and ScanComment return every trimmed match of the scanned text
\* once: no two entries of a result hold the same string, however often the string occurs
\* in the text and however many patterns match it.
C12_NoDuplicateKeys ==
    Scanned =>
        LET ms == NormalizedMatches(Len(compileAPIKeyPatterns), ScannedText)
        IN  /\ \A m, n \in 1..Len(OutKeys) : m # n => OutKeys[m] # OutKeys[n]
            /\ {OutKeys[n] : n \in 1..Len(OutKeys)} = {ms[n] : n \in 1..Len(ms)}

\* C12 witness: a post holds the same key in its title and in its content, two patterns
\* match it at both places, and ScanPost has returned one finding
C12_Witness ==
    /\ call.done /\ call.op = "ScanPost"
    /\ call.in.Title = GenericKey \o <<" ">> /\ call.in.Content = GenericKey \o <<" ">>
    /\ Len(NormalizedMatches(Len(compileAPIKeyPatterns), ScannedText)) = 4
    /\ Len(call.out) = 1 /\ call.out[1].APIKey = GenericKey

\* C13: for a text that is sk-ant- followed by 24 alphanumeric characters, ScanText
\* returns that text as its only key, of type Anthropic.
C13_OneAnthropicMatch ==
    call.done /\ call.op = "ScanText" /\ IsPlainKey(call.in, SkAntPrefix, 24)
              /\ Len(call.in) = Len(SkAntPrefix) + 24 =>
        call.out = [keys |-> <<call.in>>, types |-> <<"Anthropic">>]

\* C14: for a text that is sk- followed by 24 or more alphanumeric characters, alone or
\* after the prose "here is my key ", ScanText returns that key as its only key, of type
\* OpenAI.
C14_OneOpenAIMatch ==
    call.done /\ call.op = "ScanText" =>
        LET key == IF HasPrefix(call.in, Prose)
                   THEN SubSeq(call.in, Len(Prose) + 1, Len(call.in))
                   ELSE call.in
        IN  IsPlainKey(key, SkPrefix, 24) =>
                call.out = [keys |-> <<key>>, types |-> <<"OpenAI">>]

\* C15: every key ScanText returns stands in the text character for character; the keys
\* it returns are, up to case, the keys it returns for the lower-cased text; and a key has
\* the type of its lower-cased form.
C15_CaseInsensitive ==
    call.done /\ call.op = "ScanText" =>
        LET text == call.in
            keys == call.out.keys
            lowered == KeysOfText(ToLower(text))
        IN  /\ \A n \in 1..Len(keys) : Contains(text, keys[n])
            /\ {ToLower(keys[n]) : n \in 1..Len(keys)} = {lowered[n] : n \in 1..Len(lowered)}
            /\ \A n \in 1..Len(keys) :
                  call.out.types[n] = getAPIKeyType(ToLower(keys[n]))

\* C15 witness: the upper-case key is returned as written, with the type of the
\* lower-case key
C15_Witness ==
    /\ call.done /\ call.op = "ScanText"
    /\ call.in = KeyAntUpper \o <<"\n">> \o KeyAnt \o <<" ">>
    /\ call.out = [keys |-> <<KeyAntUpper, KeyAnt>>, types |-> <<"Anthropic", "Anthropic">>]

\* comment d is comment a or stands below it
RECURSIVE IsUnder(_, _, _)
IsUnder(par, d, a) == d = a \/ (par[d] # 0 /\ IsUnder(par, par[d], a))

\* C16: flatten returns every comment of the forest once, a comment before its replies
\* and the whole subtree of a comment before the next comment of the same level.
C16_FlattenPreOrder ==
    call.done /\ call.op = "flatten" =>
        LET par == call.in
            ids == [n \in 1..Len(call.out) |-> call.out[n].ID]
            at(k) == CHOOSE n \in 1..Len(ids) : ids[n] = NodeNames[k]
        IN  /\ Len(ids) = Len(par)
            /\ \A k \in 1..Len(par) : \E n \in 1..Len(ids) : ids[n] = NodeNames[k]
            /\ \A k \in 1..Len(par) : par[k] # 0 => at(par[k]) < at(k)
            /\ \A a, b \in 1..Len(par) :
                  a < b /\ par[a] = par[b] =>
                      \A d \in 1..Len(par) : IsUnder(par, d, a) => at(d) < at(b)

\* C16 witness: A -> [B -> [C], D] has been flattened to A, B, C, D
C16_Witness ==
    /\ call.done /\ call.op = "flatten" /\ call.in = <<0, 1, 2, 1>>
    /\ [n \in 1..Len(call.out) |-> call.out[n].ID] = <<"A", "B", "C", "D">>

\* C21: a scan cycle starts only when no cycle is under way (from the step after the load
\* or from the wait, with no batch left over), and once a run is past its load the seen
\* set changes only in a step of the cycle under way.
C21_OneCycleAtATime ==
    [][ /\ cycle' # cycle =>
              ~InCycle(pc) /\ pc \in {"initial", "wait"} /\ posts = <<>> /\ comments = <<>>
        /\ seenMessages' # seenMessages /\ pc # "load" /\ pc' # "new" =>
              pc \in {"posts", "comments", "recent"} /\ cycle' = cycle ]_vars

\* C21 witness: the second cycle of a run is under way and has marked a unit seen
C21_Witness ==
    /\ InCycle(pc) /\ prevCyc.feed # "none"
    /\ seenMessages # cyc.seenAtStart

MissedBefore ==
    {u \in published :
        \/ u \in PostIds /\ prevCyc.feed = "err"
        \/ u \in CommentIds /\ prevCyc.recent = "err"
        \/ u \in CommentIds /\ CommentOf(u).PostID \in prevCyc.commentErr}

\* C23: at the end of a cycle in which no fetch failed, every unit that a failed fetch of
\* the cycle before kept from being processed, and that the sources held in both cycles,
\* has been processed.
C23_MissedUnitProcessedLater ==
    pc = "end" /\ quiet = 2 /\ cyc.feed = "ok" /\ cyc.recent = "ok" /\ cyc.commentErr = {} =>
        MissedBefore \subseteq seenMessages

\* C24: at the end of a cycle during which nothing was published, every comment node of
\* every successful comments response of the cycle, nested replies included, has been
\* processed (it is in the seen set), for the per-post source and the recent source alike.
C24_EveryNodeOfEverySource ==
    pc = "end" /\ quiet >= 1 =>
        /\ \A p \in cyc.commentOk : IdsOf(flatten(RootComments({p}))) \subseteq seenMessages
        /\ cyc.recent = "ok" => IdsOf(flatten(FetchRecentCommentsResponse)) \subseteq seenMessages

\* C25: the step that takes an unseen unit attempts its audit-row insert once and the insert
\* of each finding of its scan text once, whatever the inserts return, and counts every
\* failed insert in saveErrors; no other step of the run attempts an insert for the unit,
\* so a failed insert is not tried again in this cycle or a later one.
C25_InsertsAttemptedOnce ==
    [][pc' # "new" =>
        \A id \in AllIds :
            LET took == /\ pc \in {"posts", "comments", "recent"}
                        /\ id \notin seenMessages /\ id \in seenMessages'
                mine == {f \in FindingRecs : f.unit = id}
            IN  /\ took =>
                      /\ runHist.msgTried[id] = 0 /\ runHist'.msgTried[id] = 1
                      /\ \A k \in KeysIn(id) :
                            \E f \in mine : f.APIKey = k /\ runHist'.findTried[f] = 1
                      /\ \A f \in mine : runHist.findTried[f] = 0 /\ runHist'.findTried[f] <= 1
                      /\ ctr'.saveErrors - ctr.saveErrors = faults' - faults
                /\ ~took =>
                      /\ runHist'.msgTried[id] = runHist.msgTried[id]
                      /\ \A f \in mine : runHist'.findTried[f] = runHist.findTried[f]]_vars

\* C25 witness: a unit with a finding whose audit-row insert failed in an earlier cycle of this
\* run came back in a batch of a later cycle, and its inserts were still attempted only once
C25_Witness ==
    /\ pc = "end"
    /\ \E id \in (cyc.seenAtStart \cap cyc.fetched) \ runHist.seeded :
          /\ messages[id] = 0 /\ runHist.msgTried[id] = 1
          /\ FindTriedOf(id) # {}
          /\ \A f \in FindTriedOf(id) : runHist.findTried[f] = 1

\* the sum of a function of numbers over a set of its arguments
RECURSIVE SumOf(_, _)
SumOf(fn, S) ==
    IF S = {} THEN 0
    ELSE LET x == CHOOSE y \in S : TRUE IN fn[x] + SumOf(fn, S \ {x})

\* by how much the sum of a function of numbers grew, from its old values to its new ones
Growth(old, new) ==
    LET changed == {x \in DOMAIN old : new[x] # old[x]}
    IN  SumOf(new, changed) - SumOf(old, changed)

\* C27: a cycle begins with every counter at zero, and every step of it raises newMessages
\* by the number of units it took (newPosts or newComments by their kind), the findings
\* counter by the finding rows it inserted and saveErrors by the inserts it attempted that
\* inserted nothing; a step that takes no unit, one that skips a seen unit included,
\* changes no counter and inserts nothing. So at the end of the cycle the counters are
\* exact, and newMessages = newPosts + newComments.
C27_CountersExact ==
    [][pc' # "new" =>
        LET took == IF pc \in {"posts", "comments", "recent"}
                    THEN seenMessages' \ seenMessages ELSE {}
            msgTries == Growth(runHist.msgTried, runHist'.msgTried)
            msgRows == Growth(messages, messages')
            findTries == Growth(runHist.findTried, runHist'.findTried)
            findRows == Growth(api_key_findings, api_key_findings')
        IN  IF cycle' # cycle THEN ctr' = ZeroCtr
            ELSE IF took = {}
            THEN ctr' = ctr /\ messages' = messages /\ api_key_findings' = api_key_findings
            ELSE /\ ctr'.newMessages = ctr.newMessages + Cardinality(took)
                 /\ ctr'.newPosts = ctr.newPosts + Cardinality(took \cap PostIds)
                 /\ ctr'.newComments = ctr.newComments + Cardinality(took \cap CommentIds)
                 /\ ctr'.totalFindings = ctr.totalFindings + findRows
                 /\ ctr'.saveErrors = ctr.saveErrors + (msgTries - msgRows)
                                                     + (findTries - findRows)
                 /\ ctr'.newMessages = ctr'.newPosts + ctr'.newComments]_vars

\* C27 witness: at the end of a cycle that skipped a seen unit, a post and a comment were
\* taken, a finding was inserted and an insert failed, and each counter says so
C27_Witness ==
    /\ pc = "end"
    /\ cyc.seenAtStart \cap cyc.fetched # {}
    /\ ctr.newPosts = 1 /\ ctr.newComments >= 1
    /\ ctr.newMessages = Cardinality(seenMessages \ cyc.seenAtStart)
    /\ ctr.totalFindings >= 1 /\ ctr.saveErrors = 1

\* C26: the list of vendor types in the audit record PostToMessage or CommentToMessage
\* returns names no vendor type twice.
C26_DistinctVendorTypes ==
    call.done /\ call.op \in {"PostToMessage", "CommentToMessage"} =>
        \A m, n \in 1..Len(call.out.APIKeyTypes) :
            m # n => call.out.APIKeyTypes[m] # call.out.APIKeyTypes[n]

\* the generic patterns in the pattern list: the four assignments and the bearer header
GenericPatterns == 27..31

\* C28: every trimmed match of a generic pattern in the text ScanText scanned that begins
\* with no vendor prefix is among the keys returned, with the type Generic.
C28_GenericMatchIsGeneric ==
    call.done /\ call.op = "ScanText" =>
        \A k \in GenericPatterns :
            LET ms == FindAllFrom(compileAPIKeyPatterns[k], call.in, 1)
            IN  \A m \in 1..Len(ms) :
                    VendorPrefixesOf(TrimSpace(ms[m])) = {} =>
                        \E n \in 1..Len(call.out.keys) :
                            /\ call.out.keys[n] = TrimSpace(ms[m])
                            /\ call.out.types[n] = "Generic"

\* the labels getAPIKeyType can return
Labels ==
    {"Anthropic", "OpenAI", "Google", "AWS", "GitHub", "Stripe", "SendGrid", "Slack",
     "Supabase", "Moltbook", "PrivateKey", "Generic", "Unknown"}

\* the string holds the private-key markers, case ignored
HasPrivateKeyMarkers(key) ==
    /\ Contains(ToLower(key), <<"b", "e", "g", "i", "n">>)
    /\ Contains(ToLower(key), <<"p", "r", "i", "v", "a", "t", "e", " ", "k", "e", "y">>)

\* the string holds one of the words of the generic rule, case ignored
HasGenericWord(key) ==
    \E w \in {<<"a", "p", "i">>, <<"s", "e", "c", "r", "e", "t">>, <<"t", "o", "k", "e", "n">>} :
        Contains(ToLower(key), w)

\* the label the priority order gives a string: its vendor prefix first (sk-ant- before
\* sk-), then the private-key markers, then the generic words, then Unknown
LabelByPriority(key) ==
    LET vs == VendorPrefixesOf(key)
    IN  IF \E v \in vs : v.type = "Anthropic" THEN "Anthropic"
        ELSE IF vs # {} THEN (CHOOSE v \in vs : TRUE).type
        ELSE IF HasPrivateKeyMarkers(key) THEN "PrivateKey"
        ELSE IF HasGenericWord(key) THEN "Generic"
        ELSE "Unknown"

\* C29: getAPIKeyType gives a string the one label of the priority order, whatever else the
\* string holds: all vendor prefixes of a string without sk-ant- stand for one vendor, a
\* string with a vendor prefix gets that vendor although it holds generic words or
\* private-key markers, akia and asia give AWS; and every key ScanText, ScanPost and
\* ScanComment return carries the label of its own text, whichever pattern matched it.
C29_LabelByPriority ==
    call.done =>
        /\ call.op = "getAPIKeyType" =>
              /\ call.out = LabelByPriority(call.in)
              /\ call.out \in Labels
              /\ \A v, w \in VendorPrefixesOf(call.in) :
                    v.type = w.type \/ "Anthropic" \in {v.type, w.type}
              /\ VendorPrefixesOf(call.in) # {} =>
                    \E v \in VendorPrefixesOf(call.in) : call.out = v.type
              /\ \A p \in {<<"a", "k", "i", "a">>, <<"a", "s", "i", "a">>} :
                    HasPrefix(ToLower(call.in), p) => call.out = "AWS"
        /\ call.op = "ScanText" =>
              \A n \in 1..Len(call.out.keys) :
                  call.out.types[n] = LabelByPriority(call.out.keys[n])
        /\ call.op \in {"ScanPost", "ScanComment"} =>
              \A n \in 1..Len(call.out) :
                  call.out[n].APIKeyType = LabelByPriority(call.out[n].APIKey)

\* C29 witness: an upper-case sk-ant- string that holds the private-key markers and a generic
\* word is labelled Anthropic
C29_Witness ==
    /\ call.done /\ call.op = "getAPIKeyType"
    /\ HasPrefix(call.in, ToUpper(SkAntPrefix))
    /\ HasPrivateKeyMarkers(call.in) /\ HasGenericWord(call.in)
    /\ call.out = "Anthropic"

\* C30: ScanPost returns the keys of title, newline, body, and ScanComment the keys of the
\* body alone; the audit record of a unit has its credential flag set exactly when that
\* same text holds a key, and lists one type for each key of it, in the order of the
\* unit's findings.
C30_OneScanText ==
    call.done =>
        LET postKeys == KeysOfText(call.in.Title \o <<"\n">> \o call.in.Content)
            commentKeys == KeysOfText(call.in.Content)
            TypesOf(keys) == [n \in 1..Len(keys) |-> getAPIKeyType(keys[n])]
        IN  /\ call.op = "ScanPost" => OutKeys = postKeys
            /\ call.op = "ScanComment" => OutKeys = commentKeys
            /\ call.op = "PostToMessage" =>
                  /\ call.out.HasAPIKey = (postKeys # <<>>)
                  /\ call.out.HasAPIKey = (ScanPostText(call.in) # <<>>)
                  /\ call.out.APIKeyTypes = TypesOf(postKeys)
            /\ call.op = "CommentToMessage" =>
                  /\ call.out.HasAPIKey = (commentKeys # <<>>)
                  /\ call.out.HasAPIKey = (ScanCommentText(call.in) # <<>>)
                  /\ call.out.APIKeyTypes = TypesOf(commentKeys)

\* C30 witness: the title ends in a key and the body begins with the same key; the newline
\* between them keeps the two apart and ScanPost has returned the key once
C30_Witness ==
    /\ call.done /\ call.op = "ScanPost"
    /\ call.in.Title = KeyTest /\ call.in.Content = KeyTest
    /\ Len(call.out) = 1 /\ call.out[1].APIKey = KeyTest
    /\ KeysOfText(call.in.Title \o call.in.Content) # <<KeyTest>>

\* the places in the pattern list, in their order
ListedPlaces == [n \in 1..Len(compileAPIKeyPatterns) |-> n]

\* C31: whichever listed patterns fail to compile, compileAPIKeyPatterns returns, and its
\* result holds the patterns that compiled, each once, in the order of the list, and no
\* pattern that failed.
C31_FailedPatternSkipped ==
    call.op = "compileAPIKeyPatterns" =>
        /\ ~call.done => ENABLED ApplyCompileAPIKeyPatterns
        /\ call.done =>
              LET good == SelectSeq(ListedPlaces, LAMBDA n : n \notin call.in)
              IN  /\ Len(call.out) = Len(good)
                  /\ \A m \in 1..Len(good) : call.out[m] = compileAPIKeyPatterns[good[m]]

\* C31 witness: the first and another pattern of the list failed to compile, and the
\* result holds the other thirty-one beginning with the second of the list
C31_Witness ==
    /\ call.done /\ call.op = "compileAPIKeyPatterns"
    /\ 1 \in call.in /\ Cardinality(call.in) = 2
    /\ Len(call.out) = Len(compileAPIKeyPatterns) - 2
    /\ call.out[1] = compileAPIKeyPatterns[2]

\* C32: a failure of NewScanner or of InitDatabase ends the process at once, and the
\* process ends before its first cycle in no other way: it has then fetched nothing,
\* attempted no insert and its seen set is empty. A failure of LoadSeenMessages is not
\* such an error: the step after the load is always the immediate cycle.
C32_FatalStartupError ==
    [][ /\ pc \in {"new", "init"} /\ faults' # faults => pc' = "exited"
        /\ pc' = "exited" =>
              /\ pc = "exited" \/ (pc \in {"new", "init"} /\ faults' # faults)
              /\ cyc' = NoCyc /\ cycle' = cycle
              /\ seenMessages' = {}
              /\ \A id \in AllIds : runHist'.msgTried[id] = 0
              /\ \A f \in FindingRecs : runHist'.findTried[f] = 0
              /\ pc # "exited" => messages' = messages /\ api_key_findings' = api_key_findings
        /\ pc = "load" /\ pc' # pc => pc' = "initial" ]_vars

\* C32 witness: a process started over a store that holds rows of an earlier run has ended
\* on a startup error, with nothing fetched and an empty seen set
C32_Witness ==
    /\ pc = "exited"
    /\ StoredIds # {} /\ runHist.earlier # {}
    /\ seenMessages = {} /\ cyc = NoCyc

\* the steps of Run that are calls which return: the store calls and the fetches are
\* bounded by the context and the client's timeout, the loops by the length of their batch
RunStep ==
    \/ InitDatabase
    \/ LoadSeenMessages
    \/ InitialScan
    \/ ProcessPost
    \/ FetchComments
    \/ ProcessComment
    \/ FetchRecentComments
    \/ ProcessRecent
    \/ ScanReturn

\* Run keeps running, and the select, which chooses at random among its ready cases,
\* does not pass over the cancellation case for ever
LiveSpec == Spec /\ WF_vars(RunStep) /\ SF_vars(Stop)

\* C33: once cancellation is signalled Run returns: it reaches the end of the select's
\* cancellation case, or, when the signal came during startup, the fatal startup error.
C33_CancelledRunReturns == cancelled ~> pc \in {"stopped", "exited"}

\* C33 witness: Run has returned by the cancellation case after a cycle that was cancelled
\* while it ran
C33_Witness ==
    /\ pc = "stopped" /\ cancelled
    /\ cyc.feed = "ok" /\ cyc.recent = "err" /\ faults = 0

\* C34: within one process no step removes an id from the seen set, and a step adds an id
\* only when it is the startup load and the id is stored, or when it is the step of a
\* loop of the cycle that processes that very unit.
C34_SeenSetOnlyGrows ==
    [][pc' # "new" =>
        /\ seenMessages \subseteq seenMessages'
        /\ \A id \in seenMessages' \ seenMessages :
              \/ pc = "load" /\ id \in StoredIds
              \/ /\ pc \in {"posts", "comments", "recent"}
                 /\ id = CursorId
                 /\ runHist'.msgTried[id] = runHist.msgTried[id] + 1 ]_vars

\* C34 witness: the seen set holds the ids the startup load seeded and, after a failed
\* insert, a unit processed in a cycle
C34_Witness ==
    /\ runHist.seeded # {} /\ runHist.seeded \subseteq seenMessages
    /\ \E id \in seenMessages \ runHist.seeded : runHist.msgTried[id] = 1 /\ messages[id] = 0
    /\ faults = 1

\* the statements the loop body is to execute for the unit, in their order: the audit-row
\* insert, one finding insert per key of the scan text in match order, the mark, and for
\* a post with replies the fetch of its comments
ExpectedSteps(in) ==
    LET keys == KeysOfText(IF in.kind = "post"
                           THEN in.unit.Title \o <<"\n">> \o in.unit.Content
                           ELSE in.unit.Content)
    IN  <<[op |-> "SaveMessage", key |-> <<>>]>>
            \o [n \in 1..Len(keys) |-> [op |-> "SaveFinding", key |-> keys[n]]]
            \o <<[op |-> "markSeen", key |-> <<>>]>>
            \o (IF in.kind = "post" /\ in.CommentCount > 0
                THEN <<[op |-> "FetchComments", key |-> <<>>]>> ELSE <<>>)

\* C35: whatever the inserts and the fetch return, the statements executed for an unseen
\* unit are, at every moment, the beginning of: audit-row insert, finding inserts in match
\* order, mark, fetch of the post's comments; all of them are executed; and the unit is in
\* the seen set exactly from the mark on, so it is there when the comments are fetched and
\* stays there when that fetch fails.
C35_UnitStepOrder ==
    call.op = "unit" =>
        LET log == call.out.log
            steps == ExpectedSteps(call.in)
        IN  /\ Len(log) <= Len(steps)
            /\ \A k \in 1..Len(log) : log[k].op = steps[k].op /\ log[k].key = steps[k].key
            /\ call.done <=> Len(log) = Len(steps)
            /\ call.out.seen <=> \E k \in 1..Len(log) : log[k].op = "markSeen"
            /\ \A k \in 1..Len(log) : log[k].op = "FetchComments" => call.out.seen

\* C35 witness: for a post with two keys and replies the audit-row insert failed, both
\* finding inserts were attempted, the post was marked seen and then its comment fetch
\* failed
C35_Witness ==
    /\ call.op = "unit" /\ call.done /\ call.in.kind = "post"
    /\ Len(call.out.log) = 5
    /\ ~call.out.log[1].ok /\ ~call.out.log[5].ok
    /\ call.out.log[5].op = "FetchComments"
    /\ call.out.seen

\* C36: the audit record PostToMessage or CommentToMessage builds for a unit and the
\* findings ScanPost or ScanComment builds for it agree: the record's flag is set exactly
\* when there is a finding, and its type list is the list of the findings' types, entry by
\* entry.
C36_RecordAgreesWithFindings ==
    call.done /\ call.op \in {"PostToMessage", "CommentToMessage"} =>
        LET findings == IF call.op = "PostToMessage" THEN ScanPostText(call.in)
                        ELSE ScanCommentText(call.in)
        IN  /\ call.out.HasAPIKey <=> Len(findings) >= 1
            /\ Len(call.out.APIKeyTypes) = Len(findings)
            /\ \A n \in 1..Len(findings) : call.out.APIKeyTypes[n] = findings[n].APIKeyType

\* C36 witness: a comment with two keys of two vendors has a record that names both
\* vendors in the order of its two findings
C36_Witness ==
    /\ call.done /\ call.op = "CommentToMessage"
    /\ call.in.Content = AwsKey \o <<" ">> \o KeyAnt \o <<" ">>
    /\ call.out.HasAPIKey
    /\ call.out.APIKeyTypes = <<"Anthropic", "AWS">>
    /\ Len(ScanCommentText(call.in)) = 2

(***************************************************************************)
(* The dashboard's pattern management (web/src/app/api/patterns/route.ts   *)
(* and web/src/lib/clickhouse.ts) next to the running scanner process.     *)
(* A row of api_key_patterns keeps its id, name, pattern string and        *)
(* enabled flag. Requests are served concurrently: a handler gives way at  *)
(* each await, so GET is a step per query and the other handlers, which    *)
(* change the table with one query, are one step.                          *)
(***************************************************************************)
\* how many of its default patterns seedDefaultPatterns keeps here
MaxDefaults == 2

\* seedDefaultPatterns: the head of its list of default patterns
ListedDefaults == <<
    [name |-> "OpenAI", pattern |-> "sk-[a-zA-Z0-9]{20,}"],
    [name |-> "OpenAI Project", pattern |-> "sk-proj-[a-zA-Z0-9_-]{20,}"],
    [name |-> "Anthropic", pattern |-> "sk-ant-[a-zA-Z0-9_-]{20,}"],
    [name |-> "Google AI", pattern |-> "AIza[0-9A-Za-z_-]{35}"],
    [name |-> "AWS Access Key", pattern |-> "AKIA[0-9A-Z]{16}"] >>

defaultPatterns == SubSeq(ListedDefaults, 1, MaxDefaults)

\* the place in the scanner's compiled-in list of the pattern with this string (the
\* dashboard's defaults repeat strings of that list), 0 for a string that is not listed
PlaceOfPattern(pattern) ==
    CASE pattern = "sk-[a-zA-Z0-9]{20,}" -> 1
      [] pattern = "sk-proj-[a-zA-Z0-9_-]{20,}" -> 2
      [] pattern = "sk-ant-[a-zA-Z0-9_-]{20,}" -> 3
      [] pattern = "AIza[0-9A-Za-z_-]{35}" -> 4
      [] pattern = "AKIA[0-9A-Z]{16}" -> 5
      [] OTHER -> 0

\* the bodies of POST /api/patterns: a pattern to add, one without a name, and one
\* whose pattern new RegExp rejects
PostBodies ==
    {[name |-> "Custom", pattern |-> "pwd=[a-z]{4,}"],
     [name |-> "", pattern |-> "pwd=[a-z]{4,}"],
     [name |-> "Broken", pattern |-> "("]}

\* new RegExp(pattern) does not throw
ValidRegExp(pattern) == pattern # "("

\* POST: name and pattern are required and the pattern has to compile
PostAccepted(body) == body.name # "" /\ body.pattern # "" /\ ValidRegExp(body.pattern)

RowIds == {row.id : row \in api_key_patterns}

\* the next request in arrival order
Arrives(r) ==
    requests[r].at = "idle" /\ (IF r = 1 THEN TRUE ELSE requests[r - 1].at # "idle")

Served(r, method, out) ==
    requests' = [requests EXCEPT ![r] = [method |-> method, at |-> "done",
                                         count |-> 0, out |-> out]]

\* seedDefaultPatterns: `if (parseInt(rows[0]?.count || "0", 10) > 0) return`
SeedWanted(count) == ~(count > 0)

\* GET, first query: ensurePatternsTable (CREATE TABLE IF NOT EXISTS) and
\* seedDefaultPatterns' SELECT count()
GetCount(r) ==
    /\ Arrives(r)
    /\ requests' = [requests EXCEPT ![r] = [method |-> "GET", at |-> "counted",
                                            count |-> Cardinality(api_key_patterns),
                                            out |-> 0]]
    /\ UNCHANGED <<api_key_patterns, mutations, scannerPatterns, lastScan, call, scannerVars>>

\* GET, second step: seedDefaultPatterns returns when it counted a row, and inserts the
\* default patterns, enabled, each with a fresh id, when it counted none
GetSeed(r) ==
    /\ requests[r].at = "counted"
    /\ api_key_patterns' =
           IF SeedWanted(requests[r].count)
           THEN api_key_patterns \cup
                {[id |-> <<r, n>>, name |-> defaultPatterns[n].name,
                  pattern |-> defaultPatterns[n].pattern, enabled |-> TRUE]
                 : n \in 1..Len(defaultPatterns)}
           ELSE api_key_patterns
    /\ requests' = [requests EXCEPT ![r].at = "seeded"]
    /\ UNCHANGED <<mutations, scannerPatterns, lastScan, call, scannerVars>>

\* GET, last query: getPatterns selects the rows and the handler answers with them
GetPatterns(r) ==
    /\ requests[r].at = "seeded"
    /\ requests' = [requests EXCEPT ![r].at = "done",
                                    ![r].out = Cardinality(api_key_patterns)]
    /\ UNCHANGED <<api_key_patterns, mutations, scannerPatterns, lastScan, call, scannerVars>>

\* POST: a rejected body is answered 400; addPattern inserts an accepted one, enabled
Post(r) ==
    /\ Arrives(r)
    /\ \E body \in PostBodies :
        IF PostAccepted(body)
        THEN /\ api_key_patterns' = api_key_patterns \cup
                    {[id |-> <<r, 1>>, name |-> body.name, pattern |-> body.pattern,
                      enabled |-> TRUE]}
             /\ Served(r, "POST", 200)
        ELSE /\ api_key_patterns' = api_key_patterns
             /\ Served(r, "POST", 400)
    /\ UNCHANGED <<mutations, scannerPatterns, lastScan, call, scannerVars>>

\* PATCH: updatePatternEnabled issues ALTER TABLE ... UPDATE enabled WHERE id, a mutation
\* that ClickHouse accepts and applies later
Patch(r) ==
    /\ Arrives(r)
    /\ \E id \in RowIds, enabled \in BOOLEAN :
        mutations' = Append(mutations, [kind |-> "UPDATE", id |-> id, enabled |-> enabled])
    /\ Served(r, "PATCH", 200)
    /\ UNCHANGED <<api_key_patterns, scannerPatterns, lastScan, call, scannerVars>>

\* DELETE: deletePattern issues ALTER TABLE ... DELETE WHERE id, a mutation as well
Delete(r) ==
    /\ Arrives(r)
    /\ \E id \in RowIds :
        mutations' = Append(mutations, [kind |-> "DELETE", id |-> id, enabled |-> FALSE])
    /\ Served(r, "DELETE", 200)
    /\ UNCHANGED <<api_key_patterns, scannerPatterns, lastScan, call, scannerVars>>

\* ClickHouse applies the oldest pending mutation to the rows with its id
ApplyMutation ==
    /\ mutations # <<>>
    /\ LET m == Head(mutations)
       IN  api_key_patterns' =
               IF m.kind = "DELETE"
               THEN {row \in api_key_patterns : row.id # m.id}
               ELSE {IF row.id = m.id THEN [row EXCEPT !.enabled = m.enabled] ELSE row
                     : row \in api_key_patterns}
    /\ mutations' = Tail(mutations)
    /\ UNCHANGED <<requests, scannerPatterns, lastScan, call, scannerVars>>

\* the texts the running scanner meets: a key of the first default pattern, alone and
\* followed by a key of another vendor
ScanTexts == {KeyTest, KeyTest \o <<" ">> \o KeyAnt}

\* FindAllString of each listed pattern on each of these texts, trimmed
MatchesByPlace ==
    [text \in ScanTexts |->
        [n \in 1..Len(compileAPIKeyPatterns) |->
            LET ms == FindAllFrom(compileAPIKeyPatterns[n], text, 1)
            IN  [m \in 1..Len(ms) |-> TrimSpace(ms[m])]]]

\* ScanText's loops over a pattern list given by its places
RECURSIVE MatchesOfPlaces(_, _, _)
MatchesOfPlaces(places, n, text) ==
    IF n = 0 THEN <<>>
    ELSE MatchesOfPlaces(places, n - 1, text) \o MatchesByPlace[text][places[n]]

\* the patterns the table holds enabled, by their place in the scanner's list
EnabledPlaces(table) == {PlaceOfPattern(row.pattern) : row \in {t \in table : t.enabled}}

\* a scanner that drops the patterns the table does not hold enabled
PatternsEnabledInTable(field, table) ==
    SelectSeq(field, LAMBDA place : place \in EnabledPlaces(table))

\* ScanText ranges over s.apiKeyPatterns: the scanner never queries api_key_patterns
PatternsForScan(field, table) == field

\* NewScanner: the process starts and keeps the compiled-in patterns (all of them
\* compile) in its apiKeyPatterns field
ConstructScanner ==
    /\ scannerPatterns = <<>>
    /\ scannerPatterns' = ListedPlaces
    /\ UNCHANGED <<api_key_patterns, mutations, requests, lastScan, call, scannerVars>>

\* a scan cycle of the running process meets a text: ScanText finds its keys with the
\* patterns of the field
CycleScan ==
    /\ scannerPatterns # <<>>
    /\ \E text \in ScanTexts :
        LET places == PatternsForScan(scannerPatterns, api_key_patterns)
        IN  lastScan' = [text |-> text,
                         keys |-> UniqueKeys(MatchesOfPlaces(places, Len(places), text),
                                             NewFoundKeys),
                         enabled |-> EnabledPlaces(api_key_patterns)]
    /\ UNCHANGED <<api_key_patterns, mutations, requests, scannerPatterns, call, scannerVars>>

Dashboard ==
    \E r \in 1..MaxRequests :
        GetCount(r) \/ GetSeed(r) \/ GetPatterns(r) \/ Post(r) \/ Patch(r) \/ Delete(r)

NextWeb == Dashboard \/ ApplyMutation \/ ConstructScanner \/ CycleScan

SpecWeb == Init /\ [][NextWeb]_vars

\* the keys ScanText finds in each of the texts with the whole compiled-in list
ListedKeys == [text \in ScanTexts |-> KeysOfText(text)]

\* C37: the scanner's pattern set is fixed at construction: NewScanner sets the field to
\* the compiled-in list, no later step (scan cycle, GET with its seeding, POST, PATCH,
\* DELETE, a mutation being applied) changes it, and every scan finds the keys of the
\* compiled-in list whatever the patterns table holds at that moment.
C37_PatternSetFixedAtConstruction ==
    [][/\ scannerPatterns' # scannerPatterns =>
              scannerPatterns = <<>> /\ scannerPatterns' = ListedPlaces
       /\ lastScan' # NoScan => lastScan'.keys = ListedKeys[lastScan'.text]]_vars

\* a scan made while the table held the OpenAI default disabled and a custom pattern
\* enabled found the sk- key all the same
C37_Witness ==
    /\ scannerPatterns = ListedPlaces
    /\ \E row \in api_key_patterns : row.name = "OpenAI" /\ ~row.enabled
    /\ \E row \in api_key_patterns : row.name = "Custom" /\ row.enabled
    /\ lastScan.text = KeyTest
    /\ lastScan.enabled = {0, 2}
    /\ lastScan.keys = <<KeyTest>>

\* C38: the table never holds two copies of the default set: no default pattern's name
\* is on two rows, however the GET /api/patterns requests interleave (POST adds other
\* names only).
C38_DefaultsSeededOnce ==
    \A n \in 1..Len(defaultPatterns) :
        Cardinality({row \in api_key_patterns : row.name = defaultPatterns[n].name}) <= 1

====
